---------------------------- MODULE Spec2Model ----------------------------
(***************************************************************************)
(* Verification model of the Polymarket scanner (scanner_v2.py):           *)
(* market grouping, validation, coverage, arbitrage and hedge detection,   *)
(* and the scan orchestrator; and of the services beside it: the trade     *)
(* queue and its workers (trade_queue.py), the retry policy of the         *)
(* execution engine (execution_engine.py), the memory cache                *)
(* (cache_layer.py), the risk control engine (risk_engine.py) and the      *)
(* position monitors (fast_monitor.py, traders_monitor.py).                *)
(*                                                                         *)
(* Python floats are IEEE-754 binary64.  Prices such as 0.60 or 0.41 are   *)
(* not representable, and the detectors compare sums and differences of    *)
(* them against thresholds (0.01, 0.02), so the model carries binary64     *)
(* arithmetic exactly: a float is a sign and a magnitude, the magnitude    *)
(* an arbitrary-precision natural number counting units of 2^-FracBits,    *)
(* and every operation rounds its exact result to 53 significant bits,     *)
(* ties to even.                                                           *)
(***************************************************************************)
EXTENDS Integers, Sequences, FiniteSets, TLC

VARIABLES
    now,            \* the wall clock, in hours (datetime.now())
    hash,           \* this process's hash(str), per base question
    feed,           \* what the venue answered for each tag in this run
    pc,             \* position inside FullScanner.scan()
    tag_index,      \* _fetch_markets: index of the tag being fetched
    all_markets,    \* _fetch_markets / scan: the list `markets`, by id
    seen_ids,       \* _fetch_markets: seen_ids
    markets,        \* FullScanner.markets: id -> Market object
    groups,         \* FullScanner.groups
    valid_markets,  \* scan: valid_markets, by id
    opportunities,  \* FullScanner.opportunities
    hedges,         \* FullScanner.hedges
    db,             \* the tables of StateManager
    summary,        \* what scan() returned
    op,             \* the entry point that is called in this behaviour
    args,           \* its arguments
    ret,            \* what it returned
    queue,          \* TradeQueue._queue: the heap list of the priority queue
    trades,         \* TradeQueue._trades: trade_id -> QueuedTrade
    lock,           \* TradeQueue._lock: the task that holds it, or "free"
    max_size,       \* TradeQueue.max_size
    workers,        \* TradeWorker._run of each worker: position, trade held
    producer,       \* the task that calls TradeQueue.enqueue
    executed,       \* how many times _execute_trade ran, per trade
    enqueued,       \* the last enqueue() call and how it ended
    policy,         \* RetryPolicy: max_retries and base_delay
    attempt,        \* RetryPolicy.execute: attempt
    invocations,    \* what each call of the operation did, in order
    delays,         \* the delays slept by execute, in order
    last_error,     \* RetryPolicy.execute: last_error
    result,         \* what execute returned
    retry_pc,       \* position inside RetryPolicy.execute
    cache,          \* MemoryCache._cache: key -> CacheEntry
    clock,          \* time.time()
    latest,         \* per key, the last set() not followed by delete or clear
    got,            \* the last get(): its key and what it returned
    account,        \* RiskControlEngine.account
    risk_ret,       \* the last call on the engine and what it returned
    opened,         \* how many positions were opened so far
    streak,         \* how many closes in a row lost money
    held,           \* the positions that each wallet holds at the venue
    previous_trades,   \* FastMonitor.previous_trades
    previous_states,   \* TradersMonitor.previous_states
    fast_at,        \* FastMonitor.check_all: the wallet of the next turn
    traders_at,     \* TradersMonitor.check_traders: likewise
    reported_fast,     \* rounds of FastMonitor that reported a position new
    reported_traders   \* rounds of TradersMonitor that did

\* the variables of the scanner
scanner_vars == <<now, hash, feed, pc, tag_index, all_markets, seen_ids,
                  markets, groups, valid_markets, opportunities, hedges, db,
                  summary, op, args, ret>>

\* the variables of the trade queue and its workers
queue_vars == <<queue, trades, lock, max_size, workers, producer, executed,
                enqueued>>

\* the variables of RetryPolicy.execute
retry_vars == <<policy, attempt, invocations, delays, last_error, result,
                retry_pc>>

\* the variables of MemoryCache
cache_vars == <<cache, clock, latest, got>>

\* the variables of RiskControlEngine
risk_vars == <<account, risk_ret, opened, streak>>

\* the variables of the position monitors
monitor_vars == <<held, previous_trades, previous_states, fast_at, traders_at,
                  reported_fast, reported_traders>>

\* the variables of the services beside the scanner
service_vars == <<queue_vars, retry_vars, cache_vars, risk_vars,
                  monitor_vars>>

vars == <<scanner_vars, service_vars>>

\* what a step of the trade queue leaves alone
beside_queue == <<scanner_vars, retry_vars, cache_vars, risk_vars,
                  monitor_vars>>

\* what a step of RetryPolicy.execute leaves alone
beside_retry == <<scanner_vars, queue_vars, cache_vars, risk_vars,
                  monitor_vars>>

\* what a call of MemoryCache leaves alone
beside_cache == <<scanner_vars, queue_vars, retry_vars, risk_vars,
                  monitor_vars>>

\* what a call of RiskControlEngine leaves alone
beside_risk == <<scanner_vars, queue_vars, retry_vars, cache_vars,
                  monitor_vars>>

\* what a step of a monitor leaves alone
beside_monitor == <<scanner_vars, queue_vars, retry_vars, cache_vars,
                    risk_vars>>

(***************************************************************************)
(* Natural numbers of any size: sequences of limbs in base 2^15, least     *)
(* significant first, without leading zero limbs.                          *)
(***************************************************************************)
LimbBase == 2^15

BLimb(a, i) == IF i <= Len(a) THEN a[i] ELSE 0

RECURSIVE BNorm(_)
BNorm(a) ==
    IF a # <<>> /\ a[Len(a)] = 0 THEN BNorm(SubSeq(a, 1, Len(a) - 1)) ELSE a

\* a + sign * b from limb i on (sign is 1, or -1 with a >= b)
RECURSIVE BSum(_, _, _, _, _)
BSum(a, b, sign, i, carry) ==
    IF i > Len(a) /\ i > Len(b)
    THEN IF carry = 0 THEN <<>> ELSE <<carry>>
    ELSE LET s == BLimb(a, i) + sign * BLimb(b, i) + carry
         IN  <<s % LimbBase>> \o BSum(a, b, sign, i + 1, s \div LimbBase)

\* -1, 0 or 1 as a < b, a = b, a > b on the limbs i, i-1, .., 1
RECURSIVE BCmp(_, _, _)
BCmp(a, b, i) ==
    IF i = 0 THEN 0
    ELSE IF BLimb(a, i) < BLimb(b, i) THEN -1
    ELSE IF BLimb(a, i) > BLimb(b, i) THEN 1
    ELSE BCmp(a, b, i - 1)

\* a * m from limb i on, for a natural m < LimbBase
RECURSIVE BMulSmall(_, _, _, _)
BMulSmall(a, m, i, carry) ==
    IF i > Len(a)
    THEN IF carry = 0 THEN <<>> ELSE <<carry>>
    ELSE LET p == a[i] * m + carry
         IN  <<p % LimbBase>> \o BMulSmall(a, m, i + 1, p \div LimbBase)

\* a * (the limbs i, i+1, .. of b), not normalised
RECURSIVE BMul(_, _, _)
BMul(a, b, i) ==
    IF i > Len(b) THEN <<>>
    ELSE BSum(BMulSmall(a, b[i], 1, 0),
              <<0>> \o BMul(a, b, i + 1), 1, 1, 0)

\* quotient (not normalised) and remainder of the limbs i, .., 1 of a by a
\* natural d < LimbBase
RECURSIVE BDivSmall(_, _, _, _)
BDivSmall(a, d, i, rem) ==
    IF i = 0 THEN [q |-> <<>>, r |-> rem]
    ELSE LET cur  == rem * LimbBase + a[i]
             rest == BDivSmall(a, d, i - 1, cur % d)
         IN  [q |-> rest.q \o <<cur \div d>>, r |-> rest.r]

RECURSIVE SmallBitLen(_)
SmallBitLen(n) == IF n = 0 THEN 0 ELSE 1 + SmallBitLen(n \div 2)

BBitLen(a) ==
    IF a = <<>> THEN 0 ELSE 15 * (Len(a) - 1) + SmallBitLen(a[Len(a)])

\* a * 2^s
BShl(a, s) ==
    IF a = <<>> THEN <<>>
    ELSE [i \in 1..(s \div 15) |-> 0] \o BMulSmall(a, 2^(s % 15), 1, 0)

\* floor(a / 2^s)
BShr(a, s) ==
    IF s \div 15 >= Len(a) THEN <<>>
    ELSE BNorm(BDivSmall(SubSeq(a, s \div 15 + 1, Len(a)), 2^(s % 15),
                         Len(a) - s \div 15, 0).q)

\* how the low s bits of a compare with half a unit of 2^s: -1, 0 or 1
HalfCmp(a, s) ==
    LET k   == (s - 1) \div 15
        j   == (s - 1) % 15
        top == BLimb(a, k + 1) % 2^(j + 1)
    IN  IF top > 2^j THEN 1
        ELSE IF top < 2^j THEN -1
        ELSE IF \A i \in 1..k : BLimb(a, i) = 0 THEN 0
        ELSE 1

\* q or q + 1: round to nearest, ties to even; sticky says that the exact
\* value lies strictly above the one that was halved
BRoundUp(q, half, sticky) ==
    IF half > 0 \/ (half = 0 /\ (sticky \/ BLimb(q, 1) % 2 = 1))
    THEN BSum(q, <<1>>, 1, 1, 0)
    ELSE q

\* a / 2^s rounded to the nearest integer
BShrRound(a, s, sticky) ==
    IF s = 0 THEN a ELSE BRoundUp(BShr(a, s), HalfCmp(a, s), sticky)

BFromNat(n) == BNorm(<<n % LimbBase, (n \div LimbBase) % LimbBase,
                       n \div (LimbBase * LimbBase)>>)

RECURSIVE BToNat(_)
BToNat(a) == IF a = <<>> THEN 0 ELSE a[1] + LimbBase * BToNat(Tail(a))

(***************************************************************************)
(* binary64 values: [neg, mag], mag in units of 2^-FracBits.               *)
(***************************************************************************)
FracBits == 75

FMk(neg, mag) == [neg |-> neg /\ mag # <<>>, mag |-> mag]

\* round an exact magnitude to 53 significant bits
FRound(a, sticky) ==
    LET s == BBitLen(a) - 53
    IN  IF s <= 0 THEN a ELSE BShl(BShrRound(a, s, sticky), s)

\* the binary64 nearest to n / d (n, d naturals, 0 < d < LimbBase): what
\* float("0.41") or the literal 0.98 denotes
FDec(n, d) ==
    LET num == BShl(BFromNat(n), FracBits)
        dv  == BDivSmall(num, d, Len(num), 0)
    IN  FMk(FALSE, FRound(BNorm(dv.q), dv.r # 0))

FNeg(x) == FMk(~x.neg, x.mag)

FAbs(x) == FMk(FALSE, x.mag)

\* -1, 0, 1
FCmp(x, y) ==
    IF x.neg # y.neg THEN (IF x.neg THEN -1 ELSE 1)
    ELSE IF x.neg THEN BCmp(y.mag, x.mag, Len(x.mag) + Len(y.mag))
    ELSE BCmp(x.mag, y.mag, Len(x.mag) + Len(y.mag))

FAdd(x, y) ==
    LET c == BCmp(x.mag, y.mag, Len(x.mag) + Len(y.mag))
    IN  FMk(IF x.neg = y.neg \/ c >= 0 THEN x.neg ELSE y.neg,
            FRound(BNorm(IF x.neg = y.neg THEN BSum(x.mag, y.mag, 1, 1, 0)
                         ELSE IF c >= 0 THEN BSum(x.mag, y.mag, -1, 1, 0)
                         ELSE BSum(y.mag, x.mag, -1, 1, 0)),
                   FALSE))

FSub(x, y) == FAdd(x, FNeg(y))

\* the exact product has 2 * FracBits fraction bits; it is rounded to 53
\* significant bits and brought back to FracBits
FMulRound(p) ==
    LET s == BBitLen(p) - 53
    IN  IF s <= FracBits THEN BShrRound(p, FracBits, FALSE)
        ELSE BShl(BShrRound(p, s, FALSE), s - FracBits)

FMul(x, y) == FMk(x.neg # y.neg, FMulRound(BNorm(BMul(x.mag, y.mag, 1))))

\* round(x, 4): the exact binary value is rounded half-even to a multiple
\* of 10^-4, and that decimal is converted back to binary64
Round4Skipped(x) == x
Round4(x) ==
    FMk(x.neg,
        FDec(BToNat(BShrRound(BMulSmall(x.mag, 10000, 1, 0), FracBits, FALSE)),
             10000).mag)

(***************************************************************************)
(* Optional values, and the prices of a Market: the venue quotes prices    *)
(* as decimal strings, which the model carries in thousandths; FPrice is   *)
(* the float that float("0.41") gives.                                     *)
(***************************************************************************)
None == <<>>

Some(v) == <<v>>

FPrice(mills) == FDec(mills, 1000)

\* the float literals of the program, by their value in hundredths
FLit ==
    (0 :> FDec(0, 100)) @@ (1 :> FDec(1, 100)) @@ (2 :> FDec(2, 100))
    @@ (5 :> FDec(5, 100)) @@ (85 :> FDec(85, 100)) @@ (100 :> FDec(100, 100))
    @@ (200 :> FDec(200, 100)) @@ (10000 :> FDec(10000, 100))

NECESSARY_PROBABILITY == FDec(98, 100)

TIER_THRESHOLDS ==
    << <<FDec(95, 100), 1, "HIGH">>,
       <<FDec(90, 100), 2, "GOOD">>,
       <<FDec(85, 100), 3, "MODERATE">>,
       <<FDec(0, 100), 4, "LOW">> >>

\* the coverage counts the target's own probability besides the cover's
calculate_coverage_cover_only(target_price, cover_price, cover_prob) ==
    LET p_not_target == FSub(FLit[100], target_price)
        coverage     == FMul(p_not_target, cover_prob)
    IN  [coverage         |-> Round4(coverage),
         loss_probability |->
             Round4(FMul(p_not_target, FSub(FLit[100], cover_prob))),
         expected_profit  |->
             Round4(FSub(coverage, FAdd(target_price, cover_price)))]

\* calculate_coverage(target_price, cover_price, cover_prob)
calculate_coverage(target_price, cover_price, cover_prob) ==
    LET p_not_target == FSub(FLit[100], target_price)
        coverage     == FAdd(target_price, FMul(p_not_target, cover_prob))
    IN  [coverage         |-> Round4(coverage),
         loss_probability |->
             Round4(FMul(p_not_target, FSub(FLit[100], cover_prob))),
         expected_profit  |->
             Round4(FSub(coverage, FAdd(target_price, cover_price)))]

RECURSIVE classify_tier_from(_, _)
classify_tier_from(coverage, i) ==
    IF i > Len(TIER_THRESHOLDS) THEN <<4, "LOW">>
    ELSE IF FCmp(coverage, TIER_THRESHOLDS[i][1]) >= 0
         THEN <<TIER_THRESHOLDS[i][2], TIER_THRESHOLDS[i][3]>>
         ELSE classify_tier_from(coverage, i + 1)

\* the coverage is compared as it is given, not rounded first
classify_tier_rounded(coverage) == classify_tier_from(Round4(coverage), 1)
classify_tier(coverage) == classify_tier_from(coverage, 1)

(***************************************************************************)
(* FullScanner._calculate_hedge                                            *)
(***************************************************************************)
HedgeScenarios(m1, m2) ==
    << <<m1, "YES", m2, "NO">>,
       <<m1, "NO", m2, "YES">>,
       <<m2, "YES", m1, "NO">>,
       <<m2, "NO", m1, "YES">> >>

PositionPriceSwapped(m, pos) ==
    IF pos = "YES" THEN FPrice(m.no_price) ELSE FPrice(m.yes_price)
PositionPrice(m, pos) ==
    IF pos = "YES" THEN FPrice(m.yes_price) ELSE FPrice(m.no_price)

\* the `continue` tests of one scenario; the last one keeps the pairs that
\* cost about one dollar out of the hedges
ScenarioSkippedNoBand(t_price, c_price) ==
    \/ FCmp(t_price, FLit[0]) <= 0
    \/ FCmp(c_price, FLit[0]) <= 0
    \/ FCmp(FAdd(t_price, c_price), FLit[200]) > 0
ScenarioSkipped(t_price, c_price) ==
    \/ FCmp(t_price, FLit[0]) <= 0
    \/ FCmp(c_price, FLit[0]) <= 0
    \/ FCmp(FAdd(t_price, c_price), FLit[200]) > 0
    \/ FCmp(FAbs(FSub(FAdd(t_price, c_price), FLit[100])), FLit[2]) < 0

\* coverage * max(expected_profit, 0)
ScenarioScore(res) ==
    FMul(res.coverage,
         IF FCmp(FLit[0], res.expected_profit) > 0 THEN FLit[0]
         ELSE res.expected_profit)

\* the test that lets a scenario replace the best one so far: a tie does
\* not
ScenarioBeatsOrTies(score, best_score, res) ==
    FCmp(score, best_score) >= 0 /\ FCmp(res.coverage, FLit[85]) >= 0
ScenarioBeats(score, best_score, res) ==
    FCmp(score, best_score) > 0 /\ FCmp(res.coverage, FLit[85]) >= 0

Prefix(s, n) == SubSeq(s, 1, IF Len(s) < n THEN Len(s) ELSE n)

HedgeOpportunity(sc, res, tier, total_cost) ==
    [target_market   |-> sc[1],
     cover_market    |-> sc[3],
     target_position |-> sc[2],
     cover_position  |-> sc[4],
     coverage        |-> res.coverage,
     tier            |-> tier[1],
     tier_label      |-> tier[2],
     total_cost      |-> total_cost,
     expected_profit |-> res.expected_profit,
     relationship    |-> sc[2] \o " on '" \o Prefix(sc[1].question, 30)
                         \o "' hedges against " \o sc[4] \o " on '"
                         \o Prefix(sc[3].question, 30) \o "'"]

\* the end of the loop body: best and best_score after a scenario that was
\* not skipped
ScenarioKept(sc, res, total_cost, st) ==
    IF ScenarioBeats(ScenarioScore(res), st.best_score, res)
    THEN [best       |-> Some(HedgeOpportunity(sc, res,
                                  classify_tier(res.coverage), total_cost)),
          best_score |-> ScenarioScore(res)]
    ELSE st

\* one turn of the loop
ScenarioStep(sc, t_price, c_price, st) ==
    IF ScenarioSkipped(t_price, c_price) THEN st
    ELSE ScenarioKept(sc,
                      calculate_coverage(t_price, c_price,
                                         NECESSARY_PROBABILITY),
                      FAdd(t_price, c_price), st)

RECURSIVE calculate_hedge_from(_, _, _)
calculate_hedge_from(scenarios, i, st) ==
    IF i > Len(scenarios) THEN st.best
    ELSE calculate_hedge_from(scenarios, i + 1,
             ScenarioStep(scenarios[i],
                          PositionPrice(scenarios[i][1], scenarios[i][2]),
                          PositionPrice(scenarios[i][3], scenarios[i][4]),
                          st))

calculate_hedge(m1, m2) ==
    calculate_hedge_from(HedgeScenarios(m1, m2), 1,
                         [best |-> None, best_score |-> FLit[0]])

(***************************************************************************)
(* Strings and the regular expressions of MarketGrouper.  Ch(str, i) is    *)
(* the i-th character of str, "" outside it.  A match operator gives the   *)
(* index after the match that re finds at position i, or 0.  The questions *)
(* of the model are ASCII and their only white space is the blank.         *)
(***************************************************************************)
Ch(str, i) == IF 1 <= i /\ i <= Len(str) THEN SubSeq(str, i, i) ELSE ""

IsDigit(c) == c \in {"0", "1", "2", "3", "4", "5", "6", "7", "8", "9"}

LowerCh(c) ==
    LET upper == "ABCDEFGHIJKLMNOPQRSTUVWXYZ"
        lower == "abcdefghijklmnopqrstuvwxyz"
    IN  IF \E i \in 1..26 : Ch(upper, i) = c
        THEN Ch(lower, CHOOSE i \in 1..26 : Ch(upper, i) = c)
        ELSE c

RECURSIVE Lower(_)
Lower(str) == IF str = "" THEN "" ELSE LowerCh(Head(str)) \o Lower(Tail(str))

RECURSIVE Strip(_)
Strip(str) ==
    IF Ch(str, 1) = " " THEN Strip(Tail(str))
    ELSE IF Ch(str, Len(str)) = " " THEN Strip(SubSeq(str, 1, Len(str) - 1))
    ELSE str

\* \s* (digits FALSE) or \d* (digits TRUE) at i
RECURSIVE SkipWhile(_, _, _)
SkipWhile(str, i, digits) ==
    IF (IF digits THEN IsDigit(Ch(str, i)) ELSE Ch(str, i) = " ")
    THEN SkipWhile(str, i + 1, digits)
    ELSE i

\* \([^)]+\) at i: here the index OF the closing parenthesis, or 0
MatchBracket(str, i) ==
    LET closes == {j \in (i + 1)..Len(str) : Ch(str, j) = ")"}
        close  == CHOOSE j \in closes : \A k \in closes : j <= k
    IN  IF Ch(str, i) = "(" /\ closes # {} /\ close > i + 1 THEN close
        ELSE 0

\* (w1|w2|..) at i, ignoring case, for lower-case words from the n-th on
RECURSIVE MatchAlt(_, _, _, _)
MatchAlt(str, i, words, n) ==
    IF n > Len(words) THEN 0
    ELSE IF /\ i + Len(words[n]) - 1 <= Len(str)
            /\ Lower(SubSeq(str, i, i + Len(words[n]) - 1)) = words[n]
         THEN i + Len(words[n])
         ELSE MatchAlt(str, i, words, n + 1)

\* [kmb]? at i, ignoring case
SkipKMB(str, i) == IF LowerCh(Ch(str, i)) \in {"k", "m", "b"} THEN i + 1 ELSE i

\* (percent|bps|dollars?|usd)
BASE_UNITS == <<"percent", "bps", "dollars", "dollar", "usd">>

\* \d+[kmb]?\s*(percent|bps|dollars?|usd)? at i.  Every part after the
\* digits is optional, so the greedy choices stand
MatchNumber(str, i) ==
    IF ~IsDigit(Ch(str, i)) THEN 0
    ELSE LET j == SkipWhile(str, SkipKMB(str, SkipWhile(str, i, TRUE)), FALSE)
             u == MatchAlt(str, j, BASE_UNITS, 1)
         IN  IF u # 0 THEN u ELSE j

\* re.sub(r'\s*\([^)]+\)', '', str), scanning from i
RECURSIVE StripBrackets(_, _)
StripBrackets(str, i) ==
    IF i > Len(str) THEN ""
    ELSE LET close == MatchBracket(str, SkipWhile(str, i, FALSE))
         IN  IF close # 0 THEN StripBrackets(str, close + 1)
             ELSE Ch(str, i) \o StripBrackets(str, i + 1)

\* re.sub(r'\d+[kmb]?\s*(percent|bps|dollars?|usd)?', '', str), from i
RECURSIVE StripNumbers(_, _)
StripNumbers(str, i) ==
    IF i > Len(str) THEN ""
    ELSE LET after == MatchNumber(str, i)
         IN  IF after # 0 THEN StripNumbers(str, after)
             ELSE Ch(str, i) \o StripNumbers(str, i + 1)

get_base_question(question) ==
    Lower(Strip(StripNumbers(StripBrackets(question, 1), 1)))

\* the alternatives that open the first two THRESHOLD_PATTERNS and the
\* ones that close the third
THRESHOLD_WORDS ==
    << <<"above", "over", "more than", ">">>,
       <<"below", "under", "less than", "<">>,
       <<"percent", "bps", "basis points">> >>

\* \s*\$?(\d+[kmb]?) at i
MatchAmount(str, i) ==
    LET j == SkipWhile(str, i, FALSE)
        d == IF Ch(str, j) = "$" THEN j + 1 ELSE j
    IN  IF i # 0 /\ IsDigit(Ch(str, d))
        THEN SkipKMB(str, SkipWhile(str, d, TRUE))
        ELSE 0

\* the n-th of THRESHOLD_PATTERNS at i.  In the third the optional letter
\* is given back when the unit does not follow it
MatchThreshold(n, str, i) ==
    IF n < 3 THEN MatchAmount(str, MatchAlt(str, i, THRESHOLD_WORDS[n], 1))
    ELSE IF ~IsDigit(Ch(str, i)) THEN 0
    ELSE LET d    == SkipWhile(str, i, TRUE)
             with == MatchAlt(str, SkipWhile(str, SkipKMB(str, d), FALSE),
                              THRESHOLD_WORDS[3], 1)
         IN  IF with # 0 THEN with
             ELSE MatchAlt(str, SkipWhile(str, d, FALSE), THRESHOLD_WORDS[3], 1)

\* re.search: the leftmost index >= i where Match succeeds, or 0
RECURSIVE SearchFrom(_, _, _)
SearchFrom(Match(_, _), str, i) ==
    IF i > Len(str) THEN 0
    ELSE IF Match(str, i) # 0 THEN i
    ELSE SearchFrom(Match, str, i + 1)

\* the loop over THRESHOLD_PATTERNS: group(0) of the first that matches
RECURSIVE FirstThreshold(_, _)
FirstThreshold(question, n) ==
    IF n > Len(THRESHOLD_WORDS) THEN ""
    ELSE LET at == SearchFrom(LAMBDA s, i : MatchThreshold(n, s, i),
                              question, 1)
         IN  IF at # 0
             THEN SubSeq(question, at, MatchThreshold(n, question, at) - 1)
             ELSE FirstThreshold(question, n + 1)

extract_bracket(question) ==
    LET at == SearchFrom(MatchBracket, question, 1)
    IN  IF at # 0
        THEN Strip(SubSeq(question, at + 1, MatchBracket(question, at) - 1))
        ELSE FirstThreshold(question, 1)

(***************************************************************************)
(* MarketGrouper.group_markets.  A group identifier is the pair of the     *)
(* prefix and the number that the f-string joins; the identifier of a      *)
(* market that was never grouped is the empty one.                         *)
(***************************************************************************)
HASH_MODULUS == 1000000

RECURSIVE Flatten(_)
Flatten(ss) == IF ss = <<>> THEN <<>> ELSE Head(ss) \o Flatten(Tail(ss))

group_id_of(base) == <<"group_", hash[base] % HASH_MODULUS>>

\* position of the group with this id in the dict, or 0
RECURSIVE GroupIndex(_, _, _)
GroupIndex(gs, gid, i) ==
    IF i > Len(gs) THEN 0
    ELSE IF gs[i].id = gid THEN i
    ELSE GroupIndex(gs, gid, i + 1)

\* one turn of the loop: the dict of groups after `market`
GroupStep(gs, market) ==
    LET base   == get_base_question(market.question)
        member == [market EXCEPT !.group_id = group_id_of(base),
                                 !.group_label = extract_bracket(market.question)]
        known  == GroupIndex(gs, member.group_id, 1)
    IN  IF known = 0
        THEN Append(gs, [id      |-> member.group_id,
                         name    |-> Prefix(base, 50),
                         slug    |-> Prefix(base, 30),
                         markets |-> <<member>>])
        ELSE [gs EXCEPT ![known].markets = Append(@, member)]

RECURSIVE GroupAll(_, _, _)
GroupAll(ms, i, gs) ==
    IF i > Len(ms) THEN gs ELSE GroupAll(ms, i + 1, GroupStep(gs, ms[i]))

\* the markets as the loop leaves them, group_id and group_label written
GroupedMarkets(ms) ==
    LET every == GroupAll(ms, 1, <<>>)
    IN  Flatten([k \in 1..Len(every) |-> every[k].markets])

\* the final filter on the size of a group: a cluster of one market is
\* no group
GroupKeptNonEmpty(g) == Len(g.markets) >= 1
GroupKept(g) == Len(g.markets) >= 2

group_markets(ms) == SelectSeq(GroupAll(ms, 1, <<>>), GroupKept)

(***************************************************************************)
(* MarketValidator.  An end_date is <<>> for the empty string,             *)
(* <<"iso", t>> for an ISO timestamp at hour t of the clock, and           *)
(* <<"text", 0>> for a text that fromisoformat rejects.  A reason is the   *)
(* pair of the check that failed and the value its message reports.        *)
(***************************************************************************)
MIN_LIQUIDITY == 10000

MIN_VOLUME == 5000

HOURS_PER_DAY == 24

\* 0.001 <= price <= 0.999
PriceInRange(price) ==
    FCmp(FDec(1, 1000), price) <= 0 /\ FCmp(price, FDec(999, 1000)) <= 0

\* (datetime.now(end.tzinfo) - end).days
age_days(end_date) == (now - end_date[2]) \div HOURS_PER_DAY

\* the test that guards a message, and the message
Check(failed, reason) == IF failed THEN <<reason>> ELSE <<>>

\* the list `errors` after the five checks, none of which returns early
MarketErrors(market) ==
    Check(market.liquidity < MIN_LIQUIDITY, <<"liquidity", market.liquidity>>)
    \o Check(market.volume < MIN_VOLUME, <<"volume", market.volume>>)
    \o Check(~PriceInRange(FPrice(market.yes_price)),
             <<"yes_price", market.yes_price>>)
    \o Check(~PriceInRange(FPrice(market.no_price)),
             <<"no_price", market.no_price>>)
    \o Check(market.end_date # <<>> /\ market.end_date[1] = "iso"
                 /\ age_days(market.end_date) > 0,
             <<"expired", age_days(market.end_date)>>)

validate_market(market) ==
    LET errors == MarketErrors(market) IN <<Len(errors) = 0, errors>>

\* the guard of the pair's own message: the group identifiers are compared,
\* not the bracket labels
SameGroupByLabel(m1, m2) ==
    m1.group_label # "" /\ m1.group_label = m2.group_label
SameGroup(m1, m2) == m1.group_id # <<>> /\ m1.group_id = m2.group_id

validate_pair(m1, m2) ==
    LET errors == Check(SameGroup(m1, m2), <<"same_group", 0>>)
                  \o validate_market(m1)[2] \o validate_market(m2)[2]
    IN  <<validate_market(m1)[1] /\ validate_market(m2)[1] /\ Len(errors) = 0,
          errors>>

(***************************************************************************)
(* FullScanner._detect_arbitrage                                           *)
(***************************************************************************)
Deviation(m) ==
    FAbs(FSub(FAdd(FPrice(m.yes_price), FPrice(m.no_price)), FLit[100]))

ArbitrageOpportunity(m, deviation, validation) ==
    [market_id         |-> m.id,
     question          |-> m.question,
     yes_price         |-> m.yes_price,
     no_price          |-> m.no_price,
     deviation         |-> deviation,
     potential_profit  |-> FMul(deviation, FLit[10000]),
     is_validated      |-> validation[1],
     validation_errors |-> validation[2]]

\* the body of the loop: what one market adds to the list
ArbitrageOf(m, deviation) ==
    IF Len(m.yes_token_id) < 2 THEN <<>>
    ELSE IF FCmp(deviation, FLit[1]) > 0
         THEN <<ArbitrageOpportunity(m, deviation, validate_market(m))>>
         ELSE <<>>

RECURSIVE detect_arbitrage(_)
detect_arbitrage(ms) ==
    IF ms = <<>> THEN <<>>
    ELSE ArbitrageOf(Head(ms), Deviation(Head(ms)))
         \o detect_arbitrage(Tail(ms))

(***************************************************************************)
(* FullScanner._detect_hedges, over groups whose members are Market        *)
(* objects.  The method never reads its parameter `markets`.               *)
(***************************************************************************)
\* for m1 in xs: for m2 in ys: (m1, m2)
PairsOf(xs, ys) ==
    Flatten([i \in 1..Len(xs) |-> [j \in 1..Len(ys) |-> <<xs[i], ys[j]>>]])

\* for i, x in enumerate(items): for y in items[i+1:]: Pairs(x, y)
LaterPairs(items, Pairs(_, _)) ==
    Flatten([i \in 1..Len(items) |->
        Flatten([k \in 1..(Len(items) - i) |-> Pairs(items[i], items[i + k])])])

\* the keys of the dict `labels`, in insertion order
RECURSIVE LabelList(_, _, _)
LabelList(ms, i, acc) ==
    IF i > Len(ms) THEN acc
    ELSE IF \E k \in 1..Len(acc) : acc[k] = ms[i].group_label
         THEN LabelList(ms, i + 1, acc)
         ELSE LabelList(ms, i + 1, Append(acc, ms[i].group_label))

\* the values of the dict `labels`, one list per key
LabelBuckets(ms, keys) ==
    [k \in 1..Len(keys) |-> SelectSeq(ms, LAMBDA m : m.group_label = keys[k])]

\* the pairs the two nests of loops visit, in their order
HedgePairs(gs) ==
    LaterPairs(gs, LAMBDA g1, g2 : PairsOf(g1.markets, g2.markets))
    \o Flatten([i \in 1..Len(gs) |->
           LaterPairs(LabelBuckets(gs[i].markets,
                                   LabelList(gs[i].markets, 1, <<>>)),
                      PairsOf)])

\* if hedge and hedge.coverage >= 0.85: hedges.append(hedge)
HedgeKept(hedge) ==
    IF hedge # None /\ FCmp(hedge[1].coverage, FLit[85]) >= 0 THEN hedge
    ELSE <<>>

\* hedges.sort(key=lambda h: -h.coverage): a stable sort; an element goes
\* behind every element whose key is not greater than its own
RECURSIVE InsertByCoverageUnstable(_, _)
InsertByCoverageUnstable(sorted, h) ==
    IF sorted = <<>> THEN <<h>>
    ELSE IF FCmp(FNeg(h.coverage), FNeg(Head(sorted).coverage)) <= 0
         THEN <<h>> \o sorted
         ELSE <<Head(sorted)>> \o InsertByCoverageUnstable(Tail(sorted), h)
RECURSIVE InsertByCoverage(_, _)
InsertByCoverage(sorted, h) ==
    IF sorted = <<>> THEN <<h>>
    ELSE IF FCmp(FNeg(h.coverage), FNeg(Head(sorted).coverage)) < 0
         THEN <<h>> \o sorted
         ELSE <<Head(sorted)>> \o InsertByCoverage(Tail(sorted), h)

RECURSIVE SortByCoverage(_, _, _)
SortByCoverage(hs, i, sorted) ==
    IF i > Len(hs) THEN sorted
    ELSE SortByCoverage(hs, i + 1, InsertByCoverage(sorted, hs[i]))

\* ms is the parameter `markets`, gs is self.groups
detect_hedges(ms, gs) ==
    LET pairs == HedgePairs(gs)
    IN  SortByCoverage(
            Flatten([i \in 1..Len(pairs) |->
                        HedgeKept(calculate_hedge(pairs[i][1], pairs[i][2]))]),
            1, <<>>)

(***************************************************************************)
(* Market objects and the records of the venue.  A record carries the      *)
(* fields _fetch_markets reads; slug, conditionId and active pass through  *)
(* unread and are left out.  A price that float() rejects is BadNumber.    *)
(***************************************************************************)
BadNumber == -1

\* parse_hours_until_expiry, in whole hours: -1 stands for no date, for a
\* date that does not parse and for a date in the past
parse_hours_signed(end_date) ==
    IF end_date = <<>> THEN -1
    ELSE IF end_date[1] # "iso" THEN -1
    ELSE end_date[2] - now
parse_hours_until_expiry(end_date) ==
    IF end_date = <<>> THEN -1
    ELSE IF end_date[1] # "iso" THEN -1
    ELSE IF end_date[2] - now >= 0 THEN end_date[2] - now
    ELSE -1

\* list[n] if len(list) > n - 1 else default
ItemOr(list, n, default) == IF Len(list) >= n THEN list[n] ELSE default

\* the body of the inner try raises for this record
ParseFails(raw) ==
    \E i \in 1..Len(raw.outcomePrices) : raw.outcomePrices[i] = BadNumber

\* Market(id=..., ...) as built from one raw record
MarketOf(raw) ==
    [id                 |-> raw.id,
     question           |-> raw.question,
     yes_token_id       |-> ItemOr(raw.clobTokenIds, 1, ""),
     no_token_id        |-> ItemOr(raw.clobTokenIds, 2, ""),
     yes_price          |-> ItemOr(raw.outcomePrices, 1, 0),
     no_price           |-> ItemOr(raw.outcomePrices, 2, 0),
     volume             |-> raw.volume,
     liquidity          |-> raw.liquidity,
     end_date           |-> raw.endDate,
     group_id           |-> <<>>,
     group_label        |-> "",
     hours_until_expiry |-> parse_hours_until_expiry(raw.endDate),
     is_valid           |-> None]

Raw(id, question, tokens, prices, volume, liquidity, endDate) ==
    [id |-> id, question |-> question, clobTokenIds |-> tokens,
     outcomePrices |-> prices, volume |-> volume, liquidity |-> liquidity,
     endDate |-> endDate]

(***************************************************************************)
(* StateManager: the tables of the database.  markets and market_groups    *)
(* are keyed by id (INSERT OR REPLACE), the other two only grow.           *)
(***************************************************************************)
HEDGES_SAVED == 20

EmptyDb ==
    [markets |-> {}, market_groups |-> {},
     hedge_opportunities |-> <<>>, scan_history |-> <<>>]

save_market(d, market) ==
    [d EXCEPT !.markets =
        {row \in @ : row.id # market.id}
        \cup {[id |-> market.id, question |-> market.question,
               yes_token_id |-> market.yes_token_id,
               no_token_id |-> market.no_token_id,
               yes_price |-> market.yes_price, no_price |-> market.no_price,
               volume |-> market.volume, liquidity |-> market.liquidity,
               end_date |-> market.end_date, group_id |-> market.group_id,
               group_label |-> market.group_label, updated_at |-> now]}]

save_group(d, group) ==
    [d EXCEPT !.market_groups =
        {row \in @ : row.id # group.id}
        \cup {[id |-> group.id, name |-> group.name, slug |-> group.slug,
               created_at |-> now]}]

\* INSERT, not INSERT OR REPLACE: the table has no key but its row number
save_hedge(d, hedge) ==
    [d EXCEPT !.hedge_opportunities =
        Append(@, [target_id |-> hedge.target_market.id,
                   cover_id |-> hedge.cover_market.id,
                   target_position |-> hedge.target_position,
                   cover_position |-> hedge.cover_position,
                   coverage |-> hedge.coverage, tier |-> hedge.tier,
                   tier_label |-> hedge.tier_label,
                   total_cost |-> hedge.total_cost,
                   expected_profit |-> hedge.expected_profit,
                   relationship |-> hedge.relationship,
                   created_at |-> now])]

log_scan(d, markets_count, opportunities_count, hedges_count) ==
    [d EXCEPT !.scan_history =
        Append(@, [scan_time |-> now, markets_count |-> markets_count,
                   opportunities_count |-> opportunities_count,
                   hedges_count |-> hedges_count])]

\* for item in items: save(item)
RECURSIVE SaveEach(_, _, _, _)
SaveEach(save(_, _), d, items, i) ==
    IF i > Len(items) THEN d
    ELSE SaveEach(save, save(d, items[i]), items, i + 1)

(***************************************************************************)
(* FullScanner._fetch_markets.  The Market objects live in `markets`, by   *)
(* id; the lists of the scan hold ids.                                     *)
(***************************************************************************)
crypto_tags == <<"crypto", "bitcoin">>

\* for m in data: the lists after the records of one answer
RECURSIVE FetchLoop(_, _, _)
FetchLoop(data, i, st) ==
    IF i > Len(data) THEN st
    ELSE IF data[i].id \in st.seen_ids THEN FetchLoop(data, i + 1, st)
    ELSE IF ParseFails(data[i])
    THEN FetchLoop(data, i + 1,
                   [st EXCEPT !.seen_ids = @ \cup {data[i].id}])
    ELSE FetchLoop(data, i + 1,
                   [all_markets |-> Append(st.all_markets, data[i].id),
                    seen_ids    |-> st.seen_ids \cup {data[i].id},
                    markets     |-> (data[i].id :> MarketOf(data[i]))
                                        @@ st.markets])

\* the position of the scan after the body of the loop for one tag
AfterTag == IF tag_index < Len(crypto_tags) THEN "fetch" ELSE "group"

\* the handler of the outer try: the error is logged and the loop goes on
FetchErrorHandled == AfterTag

\* the objects a list of ids refers to
Objects(ids) == [i \in 1..Len(ids) |-> markets[ids[i]]]

(***************************************************************************)
(* The trade queue (trade_queue.py): TradeQueue over asyncio.PriorityQueue *)
(* and the TradeWorker tasks.  The tasks run on one event loop, so a step  *)
(* is what a task does between two suspensions.  The queue holds tuples    *)
(* (priority.value, trade); the heap list is modelled by the trade ids,    *)
(* in the order of the list.                                               *)
(***************************************************************************)

\* the bound on TradeQueue(max_size)
MaxQueue == 3

\* QueuedTrade.max_retries, the default of the dataclass
QUEUED_MAX_RETRIES == 3

\* TradePriority
TradePriority == [HIGH |-> 1, NORMAL |-> 2, LOW |-> 3]

\* the trades that the producer submits: trade_id -> QueuedTrade(...)
SubmittedTrades ==
    [t1 |-> [priority |-> TradePriority.HIGH, retries |-> 0,
             max_retries |-> QUEUED_MAX_RETRIES, status |-> "pending"],
     t2 |-> [priority |-> TradePriority.NORMAL, retries |-> 0,
             max_retries |-> QUEUED_MAX_RETRIES, status |-> "pending"],
     t3 |-> [priority |-> TradePriority.NORMAL, retries |-> 0,
             max_retries |-> QUEUED_MAX_RETRIES, status |-> "pending"]]

TradeIds == DOMAIN SubmittedTrades

\* the worker tasks of TradeQueueManager (WORKER_COUNT = 2)
WorkerIds == {"w1", "w2"}

\* QueuedTrade.is_retryable
is_retryable(trade) == trade.retries < trade.max_retries

\* (priority.value, trade) < (priority.value, trade): the tuples compare by
\* their first differing item, and QueuedTrade defines __eq__ but no __lt__
TupleLess(a, b) ==
    IF SubmittedTrades[a].priority # SubmittedTrades[b].priority
    THEN IF SubmittedTrades[a].priority < SubmittedTrades[b].priority
         THEN "true" ELSE "false"
    ELSE IF a = b THEN "false" ELSE "TypeError"

SwapItems(heap, i, j) == [heap EXCEPT ![i] = heap[j], ![j] = heap[i]]

\* heapq's siftdown (positions from 1): the item at pos moves towards the
\* root while it is smaller than its parent; a comparison that raises leaves
\* the list as it is at that moment
RECURSIVE siftdown(_, _, _)
siftdown(heap, startpos, pos) ==
    IF pos <= startpos
    THEN [heap |-> heap, raised |-> FALSE]
    ELSE LET parentpos == pos \div 2
             cmp       == TupleLess(heap[pos], heap[parentpos])
         IN  IF cmp = "TypeError" THEN [heap |-> heap, raised |-> TRUE]
             ELSE IF cmp = "false" THEN [heap |-> heap, raised |-> FALSE]
             ELSE siftdown(SwapItems(heap, pos, parentpos), startpos,
                           parentpos)

\* heapq's siftup: the smaller child moves up until a leaf is reached, then
\* the item is sifted down from there
RECURSIVE siftup(_, _, _)
siftup(heap, startpos, pos) ==
    IF 2 * pos > Len(heap)
    THEN siftdown(heap, startpos, pos)
    ELSE LET cmp == IF 2 * pos + 1 <= Len(heap)
                    THEN TupleLess(heap[2 * pos], heap[2 * pos + 1])
                    ELSE "true"
             childpos == IF cmp = "true" THEN 2 * pos ELSE 2 * pos + 1
         IN  IF cmp = "TypeError" THEN [heap |-> heap, raised |-> TRUE]
             ELSE siftup(SwapItems(heap, childpos, pos), startpos, childpos)

\* heapq.heappush: append, then siftdown
heappush(heap, item) == siftdown(Append(heap, item), 1, Len(heap) + 1)

\* heapq.heappop: the last item replaces the root and is sifted; when the
\* sift raises, the item taken from the root is returned to nobody
heappop(heap) ==
    LET lastelt == heap[Len(heap)]
        rest    == SubSeq(heap, 1, Len(heap) - 1)
        sifted  == siftup([rest EXCEPT ![1] = lastelt], 1, 1)
    IN  IF rest = <<>>
        THEN [heap |-> rest, raised |-> FALSE, item |-> lastelt]
        ELSE [heap |-> sifted.heap, raised |-> sifted.raised,
              item |-> rest[1]]

\* asyncio.Queue.full()
full(heap) == Len(heap) >= max_size

\* TradeQueue(max_size) with its workers started and nothing submitted
QueueConstructed ==
    /\ queue = <<>>
    /\ trades = <<>>
    /\ lock = "free"
    /\ workers = [w \in WorkerIds |-> [pc |-> "dequeue", trade |-> ""]]
    /\ producer = [pc |-> "idle", trade |-> ""]
    /\ executed = [t \in TradeIds |-> 0]
    /\ enqueued = <<>>

\* a producer calls enqueue(trade) and reaches `async with self._lock`
CallEnqueue ==
    /\ producer.pc = "idle"
    /\ \E t \in TradeIds : producer' = [pc |-> "acquire", trade |-> t]
    /\ UNCHANGED <<queue, trades, lock, max_size, workers, executed, enqueued>>
    /\ UNCHANGED beside_queue

\* TradeQueue.enqueue, the body under the lock: it has no suspension, the
\* queue is not full when put() is reached
Enqueue ==
    /\ producer.pc = "acquire"
    /\ lock = "free"
    /\ LET t      == producer.trade
           pushed == heappush(queue, t)
       IN  IF t \in DOMAIN trades
           THEN /\ enqueued' = [trade |-> t, outcome |-> "False"]
                /\ UNCHANGED <<queue, trades>>
           ELSE IF full(queue)
           THEN /\ enqueued' = [trade |-> t, outcome |-> "False"]
                /\ UNCHANGED <<queue, trades>>
           ELSE /\ trades' = (t :> SubmittedTrades[t]) @@ trades
                /\ queue' = pushed.heap
                /\ enqueued' = [trade |-> t,
                                outcome |-> IF pushed.raised THEN "TypeError"
                                            ELSE "True"]
    /\ producer' = [pc |-> "idle", trade |-> ""]
    /\ UNCHANGED <<lock, max_size, workers, executed>>
    /\ UNCHANGED beside_queue

\* a put() that waits for room is woken by the next get() that returns
WakePutter(ws) ==
    [w \in WorkerIds |->
        IF ws[w].pc = "put" THEN [ws[w] EXCEPT !.pc = "put_woken"] ELSE ws[w]]

\* TradeQueue.dequeue on a queue that has items: get() pops the heap; an
\* exception leaves dequeue and is caught by the loop of _run
WorkerDequeue(w) ==
    /\ workers[w].pc = "dequeue"
    /\ queue # <<>>
    /\ LET popped == heappop(queue)
       IN  /\ queue' = popped.heap
           /\ IF popped.raised
              THEN UNCHANGED <<trades, workers>>
              ELSE /\ trades' = [trades EXCEPT
                                    ![popped.item].status = "processing"]
                   /\ workers' = [WakePutter(workers) EXCEPT
                                    ![w] = [pc |-> "execute",
                                            trade |-> popped.item]]
    /\ UNCHANGED <<lock, max_size, producer, executed, enqueued>>
    /\ UNCHANGED beside_queue

\* TradeWorker._execute_trade: the executor succeeds, reports a failure or
\* raises; the worker goes on to mark_completed or mark_failed
WorkerExecute(w) ==
    /\ workers[w].pc = "execute"
    /\ executed[workers[w].trade] <= QUEUED_MAX_RETRIES + 1
    /\ executed' = [executed EXCEPT ![workers[w].trade] = @ + 1]
    /\ \E success \in BOOLEAN :
          workers' = [workers EXCEPT ![w].pc = IF success
                                              THEN "mark_completed"
                                              ELSE "mark_failed"]
    /\ UNCHANGED <<queue, trades, lock, max_size, producer, enqueued>>
    /\ UNCHANGED beside_queue

\* TradeQueue.mark_completed
WorkerMarkCompleted(w) ==
    /\ workers[w].pc = "mark_completed"
    /\ lock = "free"
    /\ trades' = [trades EXCEPT ![workers[w].trade].status = "completed"]
    /\ workers' = [workers EXCEPT ![w] = [pc |-> "dequeue", trade |-> ""]]
    /\ UNCHANGED <<queue, lock, max_size, producer, executed, enqueued>>
    /\ UNCHANGED beside_queue

\* TradeQueue.mark_failed(trade_id, retry=trade.is_retryable): the trade is
\* put back under the lock; put() waits while the queue is full
WorkerMarkFailed(w) ==
    /\ workers[w].pc = "mark_failed"
    /\ lock = "free"
    /\ LET t == workers[w].trade
       IN  IF is_retryable(trades[t])
           THEN /\ trades' = [trades EXCEPT ![t].retries = @ + 1,
                                            ![t].status = "pending"]
                /\ IF full(queue)
                   THEN /\ lock' = w
                        /\ workers' = [workers EXCEPT ![w].pc = "put"]
                        /\ UNCHANGED queue
                   ELSE /\ queue' = heappush(queue, t).heap
                        /\ workers' = [workers EXCEPT
                                          ![w] = [pc |-> "dequeue",
                                                  trade |-> ""]]
                        /\ UNCHANGED lock
           ELSE /\ trades' = [trades EXCEPT ![t].status = "failed"]
                /\ workers' = [workers EXCEPT
                                  ![w] = [pc |-> "dequeue", trade |-> ""]]
                /\ UNCHANGED <<queue, lock>>
    /\ UNCHANGED <<max_size, producer, executed, enqueued>>
    /\ UNCHANGED beside_queue

\* the put() of mark_failed goes on once a get() has made room
WorkerPut(w) ==
    /\ workers[w].pc = "put_woken"
    /\ ~full(queue)
    /\ queue' = heappush(queue, workers[w].trade).heap
    /\ lock' = "free"
    /\ workers' = [workers EXCEPT ![w] = [pc |-> "dequeue", trade |-> ""]]
    /\ UNCHANGED <<trades, max_size, producer, executed, enqueued>>
    /\ UNCHANGED beside_queue

(***************************************************************************)
(* RetryPolicy (execution_engine.py): an operation run with retries and    *)
(* exponential backoff.                                                    *)
(***************************************************************************)

\* the bound on RetryPolicy(max_retries)
MaxRetries == 3

\* RETRY_DELAY, the default base_delay in seconds
RETRY_DELAY == 2

\* what one call of the operation can do: return a dict (with or without
\* the keys success and error), return something that is no dict, or raise
Outcomes ==
    {[type |-> "dict", items |-> [success |-> TRUE]],
     [type |-> "dict", items |-> [order_id |-> "7"]],
     [type |-> "dict", items |-> [success |-> FALSE, error |-> "rejected"]],
     [type |-> "dict", items |-> [success |-> FALSE]],
     [type |-> "str", value |-> "done"],
     [type |-> "raise", message |-> "timeout"]}

\* dict.get(key, default)
DictGet(items, key, default) ==
    IF key \in DOMAIN items THEN items[key] ELSE default

\* isinstance(result, dict) and not result.get("success", True)
reports_failure(r) ==
    r.type = "dict" /\ ~DictGet(r.items, "success", TRUE)

\* the policy waits after every attempt, the last one included
sleeps_after_every(n, max_retries) == TRUE

\* if attempt < self.max_retries
sleeps_after(n, max_retries) == n < max_retries

\* RetryPolicy(max_retries, base_delay) at the start of execute(func)
RetryConstructed ==
    /\ attempt = 0
    /\ invocations = <<>>
    /\ delays = <<>>
    /\ last_error = None
    /\ result = None

\* result = await func(*args, **kwargs) and what follows up to the backoff
Invoke ==
    /\ retry_pc = "call"
    /\ \E r \in Outcomes :
          /\ invocations' = Append(invocations, r)
          /\ IF r.type = "raise"
             THEN /\ last_error' = Some(r.message)
                  /\ retry_pc' = "backoff"
                  /\ UNCHANGED result
             ELSE IF reports_failure(r)
             THEN /\ last_error' = Some(DictGet(r.items, "error",
                                                "Unknown error"))
                  /\ retry_pc' = "backoff"
                  /\ UNCHANGED result
             ELSE /\ result' = Some(r)
                  /\ retry_pc' = "returned"
                  /\ UNCHANGED last_error
    /\ UNCHANGED <<policy, attempt, delays>>
    /\ UNCHANGED beside_retry

\* the backoff after a failed attempt and the next turn of the for loop
Backoff ==
    /\ retry_pc = "backoff"
    /\ delays' = IF sleeps_after(attempt, policy.max_retries)
                 THEN Append(delays, policy.base_delay * (2 ^ attempt))
                 ELSE delays
    /\ attempt' = attempt + 1
    /\ retry_pc' = IF attempt + 1 < policy.max_retries + 1
                   THEN "call" ELSE "exhausted"
    /\ UNCHANGED <<policy, invocations, last_error, result>>
    /\ UNCHANGED beside_retry

\* the return after the loop
ReturnFailure ==
    /\ retry_pc = "exhausted"
    /\ result' = Some([type |-> "dict",
                       items |-> [success |-> FALSE,
                                  error |-> <<policy.max_retries + 1,
                                              last_error>>]])
    /\ retry_pc' = "returned"
    /\ UNCHANGED <<policy, attempt, invocations, delays, last_error>>
    /\ UNCHANGED beside_retry

(***************************************************************************)
(* MemoryCache (cache_layer.py): entries with a time to live.  Every       *)
(* method body runs under the lock without a suspension, so a call is one  *)
(* step.  Time is time.time(), in seconds.                                 *)
(***************************************************************************)

\* the bound on time.time()
MaxClock == 4

CacheKeys == {"k1", "k2"}

CacheValues == {"v1", "v2"}

\* the ttl arguments of set()
Ttls == {1, 2}

\* CacheEntry.is_expired at time.time() = t, with >= for >
is_expired_at_ttl(entry, t) == t - entry.created_at >= entry.ttl

\* CacheEntry.is_expired at time.time() = t
is_expired(entry, t) == t - entry.created_at > entry.ttl

\* MemoryCache()
CacheConstructed ==
    /\ cache = <<>>
    /\ latest = [k \in CacheKeys |-> None]
    /\ got = <<>>

\* time passes
Tick ==
    /\ clock < MaxClock
    /\ clock' = clock + 1
    /\ UNCHANGED <<cache, latest, got>>
    /\ UNCHANGED beside_cache

\* MemoryCache.get
cache_get(key) ==
    /\ IF key \in DOMAIN cache /\ ~is_expired(cache[key], clock)
       THEN /\ got' = [key |-> key, value |-> Some(cache[key].value)]
            /\ UNCHANGED cache
       ELSE /\ got' = [key |-> key, value |-> None]
            /\ cache' = [k \in DOMAIN cache \ {key} |-> cache[k]]
    /\ UNCHANGED <<clock, latest>>
    /\ UNCHANGED beside_cache

\* MemoryCache.set
cache_set(key, value, ttl) ==
    /\ cache' = (key :> [value |-> value, created_at |-> clock, ttl |-> ttl])
                    @@ cache
    /\ latest' = [latest EXCEPT ![key] = Some([value |-> value,
                                               created_at |-> clock,
                                               ttl |-> ttl])]
    /\ UNCHANGED <<clock, got>>
    /\ UNCHANGED beside_cache

\* MemoryCache.delete
cache_delete(key) ==
    /\ cache' = [k \in DOMAIN cache \ {key} |-> cache[k]]
    /\ latest' = [latest EXCEPT ![key] = None]
    /\ UNCHANGED <<clock, got>>
    /\ UNCHANGED beside_cache

\* MemoryCache.clear
cache_clear ==
    /\ cache' = <<>>
    /\ latest' = [k \in CacheKeys |-> None]
    /\ UNCHANGED <<clock, got>>
    /\ UNCHANGED beside_cache

\* MemoryCache.cleanup
cache_cleanup ==
    /\ cache' = [k \in {j \in DOMAIN cache : ~is_expired(cache[j], clock)} |->
                    cache[k]]
    /\ UNCHANGED <<clock, latest, got>>
    /\ UNCHANGED beside_cache

(***************************************************************************)
(* RiskControlEngine (risk_engine.py): exposure limits and the automatic   *)
(* stop.  Amounts and prices are floats.  Lines 56-64 of the file are read *)
(* as the property Position.exposure, which returns abs(self.size), and    *)
(* the head of the dataclass Account with its field address.               *)
(***************************************************************************)

\* the bound on the number of positions opened in a run
MaxOpens == 6

\* MAX_CONSECUTIVE_LOSSES
MAX_CONSECUTIVE_LOSSES == 5

\* MAX_EXPOSURE_PCT
MAX_EXPOSURE_PCT == FDec(5, 100)

\* MAX_DRAWDOWN_PCT
MAX_DRAWDOWN_PCT == FDec(10, 100)

\* RiskControlEngine(initial_balance)
INITIAL_BALANCE == FDec(1000, 1)

\* 0, the start value of sum() and the value of `return 0`
FZero == FDec(0, 1)

\* whether the binary64 quotient x / y is at least d, for x >= 0, y > 0 and
\* a d > 0 that is no power of two: the quotient rounds to d or above when
\* the exact x / y reaches the midpoint between d and the float below it
\* (the midpoint itself rounds to the even significand)
FDivAtLeast(x, y, d) ==
    LET halfulp == BShl(<<1>>, BBitLen(d.mag) - 54)
        even    == BLimb(BShr(d.mag, BBitLen(d.mag) - 53), 1) % 2 = 0
        lhs     == BNorm(BSum(BShl(x.mag, FracBits),
                              BNorm(BMul(halfulp, y.mag, 1)), 1, 1, 0))
        rhs     == BNorm(BMul(d.mag, y.mag, 1))
        c       == BCmp(lhs, rhs, Len(lhs) + Len(rhs))
    IN  IF even THEN c >= 0 ELSE c > 0

\* sum(...) of floats, from the left
RECURSIVE FSum(_)
FSum(xs) ==
    IF xs = <<>> THEN FZero
    ELSE FAdd(FSum(SubSeq(xs, 1, Len(xs) - 1)), xs[Len(xs)])

\* Position.pnl
pnl(p) ==
    IF p.side = "YES"
    THEN FMul(FSub(p.current_price, p.entry_price), p.size)
    ELSE FMul(FSub(p.entry_price, p.current_price), p.size)

\* Position.exposure
exposure(p) == FAbs(p.size)

\* Account.total_exposure
total_exposure(a) ==
    FSum([i \in 1..Len(a.positions) |-> exposure(a.positions[i])])

\* Account.max_exposure
max_exposure(a) == FMul(a.balance, MAX_EXPOSURE_PCT)

\* Account.drawdown_pct >= MAX_DRAWDOWN_PCT
drawdown_reached(a) ==
    LET initial == FAdd(a.balance, FAbs(a.total_pnl))
    IN  IF a.balance.mag = <<>> \/ initial.mag = <<>>
        THEN FCmp(FZero, MAX_DRAWDOWN_PCT) >= 0
        ELSE FDivAtLeast(FAbs(a.total_pnl), initial, MAX_DRAWDOWN_PCT)

\* the account stops on the drawdown alone
is_stopped_by_drawdown(a) == drawdown_reached(a)

\* Account.is_stopped
is_stopped(a) ==
    drawdown_reached(a) \/ a.consecutive_losses >= MAX_CONSECUTIVE_LOSSES

\* the positions of one market, in the order of the list
SelectMarket(ps, market_id) ==
    SelectSeq(ps, LAMBDA p : p.market_id = market_id)

\* the summed exposure of the open positions of a market
market_exposure(a, market_id) ==
    LET ps == SelectMarket(a.positions, market_id)
    IN  FSum([i \in 1..Len(ps) |-> exposure(ps[i])])

\* RiskControlEngine.can_open_position
can_open_position(a, market_id, size) ==
    LET limit == max_exposure(a)
    IN  /\ FCmp(FAdd(total_exposure(a), size), limit) <= 0
        /\ FCmp(FAdd(market_exposure(a, market_id), size), limit) <= 0
        /\ ~is_stopped(a)

\* RiskControlEngine(initial_balance)
RiskConstructed ==
    /\ account = [balance |-> INITIAL_BALANCE, positions |-> <<>>,
                  total_pnl |-> FZero, consecutive_losses |-> 0]
    /\ risk_ret = <<>>
    /\ opened = 0
    /\ streak = 0

\* RiskControlEngine.open_position
open_position(market_id, side, size, price) ==
    LET can_trade == can_open_position(account, market_id, size)
    IN  /\ can_trade => opened < MaxOpens
        /\ IF can_trade
           THEN /\ account' =
                       [account EXCEPT
                           !.positions =
                               Append(@, [market_id |-> market_id,
                                          side |-> side, size |-> size,
                                          entry_price |-> price,
                                          current_price |-> price]),
                           !.balance = FSub(@, size)]
                /\ risk_ret' = [op |-> "open_position", value |-> TRUE]
                /\ opened' = opened + 1
           ELSE /\ risk_ret' = [op |-> "open_position", value |-> FALSE]
                /\ UNCHANGED <<account, opened>>
        /\ UNCHANGED streak
        /\ UNCHANGED beside_risk

\* the index of the first position of a market, 0 when it has none
RECURSIVE FirstOf(_, _, _)
FirstOf(ps, market_id, i) ==
    IF i > Len(ps) THEN 0
    ELSE IF ps[i].market_id = market_id THEN i
    ELSE FirstOf(ps, market_id, i + 1)

\* list.remove(position): the first item equal to it goes
RemoveAt(ps, i) == SubSeq(ps, 1, i - 1) \o SubSeq(ps, i + 1, Len(ps))

\* RiskControlEngine.close_position
close_position(market_id, price) ==
    LET i        == FirstOf(account.positions, market_id, 1)
        position == [account.positions[i] EXCEPT !.current_price = price]
        gain     == pnl(position)
    IN  /\ IF i = 0
           THEN /\ risk_ret' = [op |-> "close_position", value |-> FZero]
                /\ UNCHANGED <<account, streak>>
           ELSE /\ account' =
                       [account EXCEPT
                           !.positions = RemoveAt(@, i),
                           !.balance = FAdd(FAdd(@, position.size), gain),
                           !.total_pnl = FAdd(@, gain),
                           !.consecutive_losses =
                               IF FCmp(gain, FZero) < 0 THEN @ + 1
                               ELSE 0]
                /\ risk_ret' = [op |-> "close_position", value |-> gain]
                /\ streak' = IF gain.neg THEN streak + 1 ELSE 0
        /\ UNCHANGED opened
        /\ UNCHANGED beside_risk

\* RiskControlEngine.update_prices
update_prices(prices) ==
    LET updated == [i \in 1..Len(account.positions) |->
                       IF account.positions[i].market_id \in DOMAIN prices
                       THEN [account.positions[i] EXCEPT
                                !.current_price =
                                    prices[account.positions[i].market_id]]
                       ELSE account.positions[i]]
    IN  /\ account' = [account EXCEPT
                          !.positions = updated,
                          !.total_pnl = FSum([i \in 1..Len(updated) |->
                                                 pnl(updated[i])])]
        /\ risk_ret' = [op |-> "update_prices", value |-> None]
        /\ UNCHANGED <<opened, streak>>
        /\ UNCHANGED beside_risk

\* the arguments of the calls
RiskMarkets == {"m1", "m2"}

OpenArgs ==
    {<<"m1", "YES", FDec(10, 1), FDec(50, 100)>>,
     <<"m2", "NO", FDec(50, 1), FDec(50, 100)>>}

ClosePrices == {FDec(40, 100), FDec(50, 100)}

PriceUpdates == {"m2" :> FDec(40, 100)}

(***************************************************************************)
(* The position monitors (fast_monitor.py, traders_monitor.py): each round *)
(* fetches the positions of every monitored wallet and reports those that  *)
(* the round before did not show.                                          *)
(***************************************************************************)

\* the bound on the number of rounds that report one position as new
MaxReports == 2

\* MONITORED_WALLETS
MONITORED_WALLETS == <<"w1", "w2">>

Wallets == {MONITORED_WALLETS[i] : i \in 1..Len(MONITORED_WALLETS)}

\* MIN_POSITION_VALUE of traders_monitor.py
MIN_POSITION_VALUE == FDec(10, 1)

\* the records that the positions API holds, by conditionId
VenuePositions ==
    [c1 |-> [conditionId |-> "c1", currentValue |-> FDec(50, 1),
             size |-> FDec(100, 1), avgPrice |-> FDec(40, 100)],
     c2 |-> [conditionId |-> "c2", currentValue |-> FDec(0, 1),
             size |-> FDec(100, 1), avgPrice |-> FDec(50, 100)],
     c3 |-> [conditionId |-> "c3", currentValue |-> FDec(5, 1),
             size |-> FDec(10, 1), avgPrice |-> FDec(50, 100)]]

\* the positions that each wallet trades
Tradable == [w \in Wallets |-> IF w = "w1" THEN {"c1", "c2", "c3"} ELSE {"c1"}]

\* the order in which the positions API lists the records
VenueOrder == <<"c1", "c2", "c3">>

\* the answer of the positions API for a wallet that holds ids
AnswerOf(ids) ==
    LET listed == SelectSeq(VenueOrder, LAMBDA c : c \in ids)
    IN  [i \in 1..Len(listed) |-> VenuePositions[listed[i]]]

\* FastMonitor.get_positions on an answer: positions without current value
\* are left out
fast_positions(data) ==
    LET kept == SelectSeq(data, LAMBDA p : FCmp(p.currentValue, FZero) > 0)
    IN  [i \in 1..Len(kept) |->
            [condition_id |-> kept[i].conditionId,
             value |-> kept[i].currentValue]]

\* the value of a record for TradersMonitor
traders_value(p) ==
    IF FCmp(p.currentValue, FZero) > 0 THEN p.currentValue
    ELSE FMul(p.size, p.avgPrice)

\* TradersMonitor.get_positions on an answer
traders_positions(data) ==
    LET kept == SelectSeq(data, LAMBDA p : FCmp(traders_value(p),
                                                MIN_POSITION_VALUE) >= 0)
    IN  [i \in 1..Len(kept) |->
            [condition_id |-> kept[i].conditionId,
             value |-> traders_value(kept[i])]]

\* {p.condition_id for p in positions}
IdsOf(positions) == {positions[i].condition_id : i \in 1..Len(positions)}

\* counts a round that reports the ids as new for a wallet
Count(reported, wallet, ids) ==
    [reported EXCEPT ![wallet] =
        [c \in DOMAIN @ |-> IF c \in ids /\ @[c] < MaxReports
                            THEN @[c] + 1 ELSE @[c]]]

\* FastMonitor() and TradersMonitor()
MonitorsConstructed ==
    /\ previous_trades = [w \in Wallets |-> {}]
    /\ previous_states = <<>>
    /\ fast_at = 1
    /\ traders_at = 1
    /\ reported_fast = [w \in Wallets |-> [c \in Tradable[w] |-> 0]]
    /\ reported_traders = [w \in Wallets |-> [c \in Tradable[w] |-> 0]]

\* a wallet opens or closes a position
Trade(wallet, c) ==
    /\ held' = [held EXCEPT ![wallet] =
                   IF c \in @ THEN @ \ {c} ELSE @ \union {c}]
    /\ reported_fast' = [reported_fast EXCEPT ![wallet][c] = 0]
    /\ reported_traders' = [reported_traders EXCEPT ![wallet][c] = 0]
    /\ UNCHANGED <<previous_trades, previous_states, fast_at, traders_at>>
    /\ UNCHANGED beside_monitor

\* FastMonitor.check_all, one turn of its loop: the fetch answers (ok) or
\* fails, and get_positions then returns []
FastCheck(ok) ==
    LET wallet    == MONITORED_WALLETS[fast_at]
        positions == IF ok THEN fast_positions(AnswerOf(held[wallet]))
                     ELSE <<>>
        new_ids   == IdsOf(positions) \ previous_trades[wallet]
    IN  /\ previous_trades' =
               [previous_trades EXCEPT
                   ![wallet] = IdsOf(positions)]
        /\ reported_fast' = Count(reported_fast, wallet, new_ids)
        /\ fast_at' = (fast_at % Len(MONITORED_WALLETS)) + 1
        /\ UNCHANGED <<held, previous_states, traders_at, reported_traders>>
        /\ UNCHANGED beside_monitor

\* TradersMonitor.check_traders, one turn of its loop
TradersCheck(ok) ==
    LET wallet    == MONITORED_WALLETS[traders_at]
        positions == IF ok THEN traders_positions(AnswerOf(held[wallet]))
                     ELSE <<>>
        prev      == IF wallet \in DOMAIN previous_states
                     THEN previous_states[wallet] ELSE <<>>
        new_ids   == IdsOf(positions) \ IdsOf(prev)
    IN  /\ previous_states' =
               (wallet :> positions) @@ previous_states
        /\ reported_traders' = Count(reported_traders, wallet, new_ids)
        /\ traders_at' = (traders_at % Len(MONITORED_WALLETS)) + 1
        /\ UNCHANGED <<held, previous_trades, fast_at, reported_fast>>
        /\ UNCHANGED beside_monitor

\* the services as they are when only the scanner runs
QueueIdle == QueueConstructed /\ max_size = MaxQueue

RetryIdle ==
    /\ RetryConstructed
    /\ policy = [max_retries |-> MaxRetries, base_delay |-> RETRY_DELAY]
    /\ retry_pc = "call"

CacheIdle == CacheConstructed /\ clock = 0

MonitorsIdle == MonitorsConstructed /\ held = [w \in Wallets |-> {}]

ServicesIdle ==
    QueueIdle /\ RetryIdle /\ CacheIdle /\ RiskConstructed /\ MonitorsIdle

(***************************************************************************)
(* The venue: the records it can answer with, in descending volume.        *)
(* Record "1" comes in two forms, one of them with a price that does not   *)
(* parse; "3" ended at hour 0; "4" lacks liquidity, has no tokens and an   *)
(* end date that is not ISO.                                               *)
(***************************************************************************)
MaxRecs == 2

MaxCycles == 2

HashSpace == 2

NowSamples == {5, 30}

Venue ==
    << Raw("1", "BTC above $100k (Dec)", <<"71", "72">>, <<900, 90>>,
           9000, 20000, <<>>),
       Raw("1", "BTC above $100k (Dec)", <<"71", "72">>, <<BadNumber>>,
           9000, 20000, <<>>),
       Raw("2", "ETH above $5k (Dec)", <<"73", "74">>, <<80, 910>>,
           8000, 20000, <<"iso", 48>>),
       Raw("3", "BTC above $120k (Jan)", <<"75", "76">>, <<600, 410>>,
           7000, 20000, <<"iso", 0>>),
       Raw("4", "ETH above $6k (Jan)", <<>>, <<420, 600>>,
           6000, 500, <<"text", 0>>) >>

RECURSIVE Ascending(_)
Ascending(S) ==
    IF S = {} THEN <<>>
    ELSE LET least == CHOOSE x \in S : \A y \in S : x <= y
         IN  <<least>> \o Ascending(S \ {least})

\* the answers of the venue to one query in continuous mode: two markets
\* of one base question, one at a time
CycleAnswers == {<<>>, <<Venue[1]>>, <<Venue[4]>>}

\* the answers of the venue to one query: at most MaxRecs of its records,
\* no two of them for one market
Answers ==
    {[i \in 1..Cardinality(S) |-> Venue[Ascending(S)[i]]] :
        S \in {T \in SUBSET (1..Len(Venue)) :
                  /\ Cardinality(T) <= MaxRecs
                  /\ \A i, j \in T : Venue[i].id = Venue[j].id => i = j}}

(***************************************************************************)
(* FullScanner.scan, one step per stage                                    *)
(***************************************************************************)
\* scan() is called: _fetch_markets starts with empty lists.  self.markets
\* is not among them: __init__ alone assigns it
StartScanFrom(at) ==
    /\ op = "scan" /\ pc = at
    /\ pc' = "fetch"
    /\ feed' = <<>>
    /\ tag_index' = 1
    /\ all_markets' = <<>>
    /\ seen_ids' = {}
    /\ UNCHANGED <<service_vars, now, hash, markets, groups, valid_markets, opportunities,
                   hedges, db, summary, op, args, ret>>

StartScan == StartScanFrom("idle")

\* continuous_scan calls scan() again on the same scanner
ScanAgain ==
    /\ Len(db.scan_history) < MaxCycles
    /\ StartScanFrom("done")

\* client.get raises for this tag, in the tag lookup or in the market query
FetchFails(status) ==
    /\ op = "scan" /\ pc = "fetch"
    /\ feed' = Append(feed, [tag |-> crypto_tags[tag_index],
                             status |-> status, data |-> <<>>])
    /\ pc' = FetchErrorHandled
    /\ tag_index' = tag_index + 1
    /\ UNCHANGED <<service_vars, now, hash, all_markets, seen_ids, markets, groups,
                   valid_markets, opportunities, hedges, db, summary, op,
                   args, ret>>

FetchTagRaises == FetchFails("tag_raised")

FetchMarketsRaises == FetchFails("markets_raised")

\* the tag lookup answers with nothing: `continue`
FetchTagNotFound ==
    /\ op = "scan" /\ pc = "fetch"
    /\ feed' = Append(feed, [tag |-> crypto_tags[tag_index],
                             status |-> "no_tag", data |-> <<>>])
    /\ pc' = AfterTag
    /\ tag_index' = tag_index + 1
    /\ UNCHANGED <<service_vars, now, hash, all_markets, seen_ids, markets, groups,
                   valid_markets, opportunities, hedges, db, summary, op,
                   args, ret>>

\* the lists of the scan after the loop over one answer
Fetched(data) ==
    FetchLoop(data, 1, [all_markets |-> all_markets, seen_ids |-> seen_ids,
                        markets |-> markets])

\* the venue answers the market query with `data`, one of `answers`
FetchMarketsOf(answers) ==
    /\ op = "scan" /\ pc = "fetch"
    /\ \E data \in answers :
         /\ feed' = Append(feed, [tag |-> crypto_tags[tag_index],
                                  status |-> "ok", data |-> data])
         /\ all_markets' = Fetched(data).all_markets
         /\ seen_ids' = Fetched(data).seen_ids
         /\ markets' = Fetched(data).markets
    /\ pc' = AfterTag
    /\ tag_index' = tag_index + 1
    /\ UNCHANGED <<service_vars, now, hash, groups, valid_markets, opportunities, hedges,
                   db, summary, op, args, ret>>

FetchMarkets == FetchMarketsOf(Answers)

FetchRepeated == FetchMarketsOf(CycleAnswers)

\* the Market objects after group_markets wrote group_id and group_label
\* into every market it was given
MarketsAfterGrouping ==
    LET grouped == GroupedMarkets(Objects(all_markets))
    IN  [id \in DOMAIN markets |->
            IF \E k \in 1..Len(grouped) : grouped[k].id = id
            THEN grouped[CHOOSE k \in 1..Len(grouped) : grouped[k].id = id]
            ELSE markets[id]]

\* a list of groups with ids (objects FALSE) or the Market objects
\* themselves (objects TRUE) as the members of each group
GroupsOf(gs, objects) ==
    [k \in 1..Len(gs) |->
        [gs[k] EXCEPT !.markets =
            IF objects THEN Objects(@) ELSE [i \in 1..Len(@) |-> @[i].id]]]

\* self.groups = self.grouper.group_markets(markets)
GroupMarkets ==
    /\ op = "scan" /\ pc = "group"
    /\ markets' = MarketsAfterGrouping
    /\ groups' = GroupsOf(group_markets(Objects(all_markets)), FALSE)
    /\ pc' = "save"
    /\ UNCHANGED <<service_vars, now, hash, feed, tag_index, all_markets, seen_ids,
                   valid_markets, opportunities, hedges, db, summary, op,
                   args, ret>>

\* what a call that raised leaves in place of a result
Raising(call) == <<"raised", call>>

\* for m in markets: save_market(m); for g in self.groups: save_group(g):
\* the database after the first k of these writes
SaveStateDb(k) ==
    IF k <= Len(all_markets)
    THEN SaveEach(save_market, db, Prefix(Objects(all_markets), k), 1)
    ELSE SaveEach(save_group,
                  SaveEach(save_market, db, Objects(all_markets), 1),
                  Prefix(groups, k - Len(all_markets)), 1)

SaveState ==
    /\ op = "scan" /\ pc = "save"
    /\ db' = SaveStateDb(Len(all_markets) + Len(groups))
    /\ pc' = "validate"
    /\ UNCHANGED <<service_vars, now, hash, feed, tag_index, all_markets, seen_ids, markets,
                   groups, valid_markets, opportunities, hedges, summary, op,
                   args, ret>>

\* the database raises in one of these writes: nothing in scan() catches it
SaveStateRaises ==
    /\ op = "scan" /\ pc = "save"
    /\ \E k \in 0..(Len(all_markets) + Len(groups) - 1) :
         /\ db' = SaveStateDb(k)
         /\ ret' = Raising(IF k < Len(all_markets) THEN "save_market"
                                                   ELSE "save_group")
    /\ pc' = "raised"
    /\ UNCHANGED <<service_vars, now, hash, feed, tag_index, all_markets, seen_ids, markets,
                   groups, valid_markets, opportunities, hedges, summary, op,
                   args>>

\* m.is_valid = is_valid; valid_markets.append(m) if is_valid
ValidateMarkets ==
    /\ op = "scan" /\ pc = "validate"
    /\ markets' = [id \in DOMAIN markets |->
                      IF \E k \in 1..Len(all_markets) : all_markets[k] = id
                      THEN [markets[id] EXCEPT
                               !.is_valid = Some(validate_market(markets[id])[1])]
                      ELSE markets[id]]
    /\ valid_markets' =
           SelectSeq(all_markets, LAMBDA id : validate_market(markets[id])[1])
    /\ pc' = "arbitrage"
    /\ UNCHANGED <<service_vars, now, hash, feed, tag_index, all_markets, seen_ids, groups,
                   opportunities, hedges, db, summary, op, args, ret>>

DetectArbitrage ==
    /\ op = "scan" /\ pc = "arbitrage"
    /\ opportunities' = detect_arbitrage(Objects(valid_markets))
    /\ pc' = "hedges"
    /\ UNCHANGED <<service_vars, now, hash, feed, tag_index, all_markets, seen_ids, markets,
                   groups, valid_markets, hedges, db, summary, op, args, ret>>

\* self.hedges = self._detect_hedges(valid_markets), which also saves the
\* first HEDGES_SAVED of them
DetectHedges ==
    /\ op = "scan" /\ pc = "hedges"
    /\ hedges' = detect_hedges(Objects(valid_markets), GroupsOf(groups, TRUE))
    /\ db' = SaveEach(save_hedge, db, Prefix(hedges', HEDGES_SAVED), 1)
    /\ pc' = "log"
    /\ UNCHANGED <<service_vars, now, hash, feed, tag_index, all_markets, seen_ids, markets,
                   groups, valid_markets, opportunities, summary, op, args,
                   ret>>

\* save_hedge raises after k hedges were saved: _detect_hedges does not
\* return, and self.hedges is not assigned
HedgesRaise(found) ==
    /\ op = "scan" /\ pc = "hedges"
    /\ \E k \in 0..(Len(Prefix(found, HEDGES_SAVED)) - 1) :
         db' = SaveEach(save_hedge, db, Prefix(found, k), 1)
    /\ ret' = Raising("save_hedge")
    /\ pc' = "raised"
    /\ UNCHANGED <<service_vars, now, hash, feed, tag_index, all_markets, seen_ids, markets,
                   groups, valid_markets, opportunities, hedges, summary, op,
                   args>>

DetectHedgesRaises ==
    HedgesRaise(detect_hedges(Objects(valid_markets), GroupsOf(groups, TRUE)))

\* log_scan raises
LogScanRaises ==
    /\ op = "scan" /\ pc = "log"
    /\ ret' = Raising("log_scan")
    /\ pc' = "raised"
    /\ UNCHANGED <<service_vars, now, hash, feed, tag_index, all_markets, seen_ids, markets,
                   groups, valid_markets, opportunities, hedges, db, summary,
                   op, args>>

\* log_scan(...) and the returned summary
LogAndReturn ==
    /\ op = "scan" /\ pc = "log"
    /\ db' = log_scan(db, Len(all_markets), Len(opportunities), Len(hedges))
    /\ summary' = Some([total_markets           |-> Len(all_markets),
                        valid_markets           |-> Len(valid_markets),
                        groups                  |-> Len(groups),
                        arbitrage_opportunities |-> Len(opportunities),
                        hedge_opportunities     |-> Len(hedges)])
    /\ pc' = "done"
    /\ UNCHANGED <<service_vars, now, hash, feed, tag_index, all_markets, seen_ids, markets,
                   groups, valid_markets, opportunities, hedges, op, args,
                   ret>>

\* FullScanner(): the state after construction
Constructed ==
    /\ feed = <<>>
    /\ tag_index = 0
    /\ all_markets = <<>>
    /\ seen_ids = {}
    /\ markets = <<>>
    /\ groups = <<>>
    /\ valid_markets = <<>>
    /\ opportunities = <<>>
    /\ hedges = <<>>
    /\ db = EmptyDb
    /\ summary = None
    /\ ret = <<>>

\* hash() of this process on the base questions of a set of questions
Hashes(questions) ==
    [{get_base_question(q) : q \in questions} -> 0..(HashSpace - 1)]

\* grouping reads the residues through their equality only, so the residue
\* functions are taken up to renaming: the first base question has residue 0
\* and the second one 0 or 1
Init ==
    /\ Constructed
    /\ ServicesIdle
    /\ pc = "idle"
    /\ now \in NowSamples
    /\ hash \in {h \in Hashes({Venue[i].question : i \in 1..Len(Venue)}) :
                    /\ h[get_base_question(Venue[1].question)] = 0
                    /\ h[get_base_question(Venue[3].question)] <= 1}
    /\ op = "scan"
    /\ args = <<>>

Next ==
    \/ StartScan
    \/ FetchTagRaises
    \/ FetchMarketsRaises
    \/ FetchTagNotFound
    \/ FetchMarkets
    \/ GroupMarkets
    \/ SaveState
    \/ ValidateMarkets
    \/ DetectArbitrage
    \/ DetectHedges
    \/ LogAndReturn
    \/ SaveStateRaises
    \/ DetectHedgesRaises
    \/ LogScanRaises

Spec == Init /\ [][Next]_vars

\* continuous mode: scan() after scan() on one scanner, with a venue that
\* answers and a database that takes every write
NextCycles ==
    \/ StartScan
    \/ ScanAgain
    \/ FetchRepeated
    \/ GroupMarkets
    \/ SaveState
    \/ ValidateMarkets
    \/ DetectArbitrage
    \/ DetectHedges
    \/ LogAndReturn

SpecCycles == Init /\ [][NextCycles]_vars

(***************************************************************************)
(* The entry points called on their own: one call per behaviour, its       *)
(* arguments drawn from samples that reach the branches of the callee.     *)
(***************************************************************************)
MaxList == 3

\* a market that passes every check, but for the fields given
Sample(id, question, tokens, yes, no, liquidity, volume, endDate) ==
    MarketOf(Raw(id, question, tokens, <<yes, no>>, volume, liquidity, endDate))

\* the lists of at most MaxList members of S
Lists(S) == UNION {[1..n -> S] : n \in 0..MaxList}

\* _calculate_hedge: two markets with any of these prices
HedgeArgs ==
    {<<Sample("1", "A", <<"71", "72">>, y1, n1, 20000, 9000, <<>>),
       Sample("2", "B", <<"73", "74">>, y2, n2, 20000, 9000, <<>>)>> :
        y1 \in {0, 80, 500, 600, 900, 1500}, n1 \in {80, 90, 420, 500, 910},
        y2 \in {0, 80, 500, 600, 900, 1500}, n2 \in {80, 90, 420, 500, 910}}

\* _detect_arbitrage: prices on both sides of the threshold, and markets
\* with one or both token ids short or missing
ArbitrageArgs ==
    {<<ms>> : ms \in Lists(
        {Sample("1", "A", <<"71", "72">>, 600, 410, 20000, 9000, <<>>),
         Sample("2", "B", <<"71", "72">>, 600, 430, 20000, 9000, <<>>),
         Sample("3", "C", <<"71", "72">>, 500, 500, 20000, 9000, <<>>),
         Sample("4", "D", <<"71">>, 600, 430, 20000, 9000, <<>>),
         Sample("5", "E", <<"7", "72">>, 600, 430, 20000, 9000, <<>>),
         Sample("6", "F", <<>>, 600, 430, 500, 9000, <<>>)})}

GroupQuestions ==
    <<"BTC above $100k (Dec)", "BTC above $120k (Jan)", "ETH above $5k (Dec)",
      "BTC below $90k">>

\* group_markets: lists of distinct markets, the i-th with the i-th question
GroupArgs ==
    {<<[k \in 1..Len(is) |->
           Sample(<<"1", "2", "3", "4">>[is[k]], GroupQuestions[is[k]],
                  <<"71", "72">>, 600, 410, 20000, 9000, <<>>)]>> :
        is \in {js \in Lists(1..Len(GroupQuestions)) :
                   \A a, b \in 1..Len(js) : a # b => js[a] # js[b]}}

\* validate_market: every check on both sides of its limit
MarketArgs ==
    {<<Sample("1", "A", <<"71", "72">>, yes, no, liquidity, volume, endDate)>> :
        yes \in {0, 1, 999, 1000}, no \in {1, 1000},
        liquidity \in {500, MIN_LIQUIDITY}, volume \in {100, MIN_VOLUME},
        endDate \in {<<>>, <<"iso", 0>>, <<"text", 0>>}}

\* validate_pair: valid and invalid markets, grouped or not
PairMarkets(id) ==
    {[Sample(id, "A", <<"71", "72">>, 600, 410, liquidity, 9000, <<>>)
          EXCEPT !.group_id = gid, !.group_label = label] :
        liquidity \in {500, 20000},
        gid \in {<<>>, <<"group_", 1>>, <<"group_", 2>>},
        label \in {"Dec", "Jan"}}

PairArgs == PairMarkets("1") \X PairMarkets("2")

\* a decimal literal: n / 10^e, negated if neg, with e <= 6
Dec(neg, n, e) == [neg |-> neg, n |-> n, e |-> e]

\* the float a decimal literal denotes
FOfDec(x) ==
    LET num == BShl(BFromNat(x.n), FracBits)
        q1  == BDivSmall(num, 10 ^ (IF x.e > 3 THEN 3 ELSE x.e), Len(num), 0)
        q2  == BDivSmall(q1.q, 10 ^ (IF x.e > 3 THEN x.e - 3 ELSE 0),
                         Len(q1.q), 0)
    IN  FMk(x.neg, FRound(BNorm(q2.q), q1.r # 0 \/ q2.r # 0))

\* calculate_coverage: the ends and the middle of the target price, and
\* cover probabilities of two and of five decimal places
CoverageArgs ==
    {Dec(FALSE, 0, 0), Dec(FALSE, 1, 0), Dec(FALSE, 5, 1)}
    \X {Dec(FALSE, 0, 0), Dec(FALSE, 25, 2), Dec(FALSE, 1, 0)}
    \X {Dec(FALSE, 0, 0), Dec(FALSE, 5, 1), Dec(FALSE, 98, 2),
        Dec(FALSE, 98766, 5), Dec(FALSE, 12344, 5), Dec(FALSE, 1, 0)}

\* classify_tier: each threshold, the value just below it, and values
\* outside [0, 1]
TierArgs ==
    {<<x>> : x \in {Dec(FALSE, 95, 2), Dec(FALSE, 949999, 6),
                    Dec(FALSE, 9, 1), Dec(FALSE, 899999, 6),
                    Dec(FALSE, 85, 2), Dec(FALSE, 849999, 6),
                    Dec(FALSE, 0, 0), Dec(FALSE, 1, 0), Dec(FALSE, 2, 0),
                    Dec(TRUE, 1, 2), Dec(TRUE, 5, 0)}}

\* the writes of StateManager: a market, a group, a hedge
SaveArgs ==
    [save_market |->
        {<<Sample(id, "A", <<"71", "72">>, 900, 90, 20000, 9000, <<>>)>> :
            id \in {"1", "2"}},
     save_group |->
        {<<[id |-> <<"group_", n>>, name |-> "btc above $",
            slug |-> "btc above $", markets |-> <<>>]>> : n \in {1, 2}},
     save_hedge |->
        {<<hedge[1]>> : hedge \in
            {calculate_hedge(pair[1], pair[2]) : pair \in
                {<<Sample("1", "A", <<"71", "72">>, 900, 90, 20000, 9000, <<>>),
                   Sample("2", "B", <<"73", "74">>, yes, 910, 20000, 9000,
                          <<>>)>> : yes \in {80, 500}}}}]

Calls ==
    [calculate_hedge    |-> HedgeArgs,
     detect_arbitrage   |-> ArbitrageArgs,
     group_markets      |-> GroupArgs,
     validate_market    |-> MarketArgs,
     validate_pair      |-> PairArgs,
     calculate_coverage |-> CoverageArgs,
     classify_tier      |-> TierArgs,
     save_market        |-> SaveArgs.save_market,
     save_group         |-> SaveArgs.save_group,
     save_hedge         |-> SaveArgs.save_hedge]

InitCalls ==
    /\ Constructed
    /\ ServicesIdle
    /\ pc = "call"
    /\ op \in {"calculate_hedge", "detect_arbitrage", "group_markets",
               "validate_market", "validate_pair", "calculate_coverage",
               "classify_tier", "save_market", "save_group", "save_hedge"}
    /\ now \in (IF op = "validate_market" THEN NowSamples ELSE {5})
    /\ args \in Calls[op]
    /\ hash \in (IF op = "group_markets"
                 THEN Hashes({GroupQuestions[i] : i \in 1..Len(GroupQuestions)})
                 ELSE Hashes({}))

CallCalculateHedge ==
    /\ pc = "call" /\ op = "calculate_hedge"
    /\ ret' = calculate_hedge(args[1], args[2])
    /\ pc' = "returned"
    /\ UNCHANGED <<service_vars, now, hash, feed, tag_index, all_markets, seen_ids, markets,
                   groups, valid_markets, opportunities, hedges, db, summary,
                   op, args>>

CallDetectArbitrage ==
    /\ pc = "call" /\ op = "detect_arbitrage"
    /\ ret' = detect_arbitrage(args[1])
    /\ pc' = "returned"
    /\ UNCHANGED <<service_vars, now, hash, feed, tag_index, all_markets, seen_ids, markets,
                   groups, valid_markets, opportunities, hedges, db, summary,
                   op, args>>

\* the returned groups, and the markets of the argument as the call left them
CallGroupMarkets ==
    /\ pc = "call" /\ op = "group_markets"
    /\ ret' = [groups  |-> group_markets(args[1]),
               markets |-> GroupedMarkets(args[1])]
    /\ pc' = "returned"
    /\ UNCHANGED <<service_vars, now, hash, feed, tag_index, all_markets, seen_ids, markets,
                   groups, valid_markets, opportunities, hedges, db, summary,
                   op, args>>

CallValidateMarket ==
    /\ pc = "call" /\ op = "validate_market"
    /\ ret' = validate_market(args[1])
    /\ pc' = "returned"
    /\ UNCHANGED <<service_vars, now, hash, feed, tag_index, all_markets, seen_ids, markets,
                   groups, valid_markets, opportunities, hedges, db, summary,
                   op, args>>

CallValidatePair ==
    /\ pc = "call" /\ op = "validate_pair"
    /\ ret' = validate_pair(args[1], args[2])
    /\ pc' = "returned"
    /\ UNCHANGED <<service_vars, now, hash, feed, tag_index, all_markets, seen_ids, markets,
                   groups, valid_markets, opportunities, hedges, db, summary,
                   op, args>>

CallCalculateCoverage ==
    /\ pc = "call" /\ op = "calculate_coverage"
    /\ ret' = calculate_coverage(FOfDec(args[1]), FOfDec(args[2]),
                                 FOfDec(args[3]))
    /\ pc' = "returned"
    /\ UNCHANGED <<service_vars, now, hash, feed, tag_index, all_markets, seen_ids, markets,
                   groups, valid_markets, opportunities, hedges, db, summary,
                   op, args>>

CallClassifyTier ==
    /\ pc = "call" /\ op = "classify_tier"
    /\ ret' = classify_tier(FOfDec(args[1]))
    /\ pc' = "returned"
    /\ UNCHANGED <<service_vars, now, hash, feed, tag_index, all_markets, seen_ids, markets,
                   groups, valid_markets, opportunities, hedges, db, summary,
                   op, args>>

\* the database after the write that op names
Saved(d) ==
    IF op = "save_market" THEN save_market(d, args[1])
    ELSE IF op = "save_group" THEN save_group(d, args[1])
    ELSE save_hedge(d, args[1])

\* save_market, save_group or save_hedge is called
CallSave ==
    /\ pc = "call" /\ op \in {"save_market", "save_group", "save_hedge"}
    /\ db' = Saved(db)
    /\ pc' = "returned"
    /\ UNCHANGED <<service_vars, now, hash, feed, tag_index, all_markets, seen_ids, markets,
                   groups, valid_markets, opportunities, hedges, summary,
                   op, args, ret>>

\* and called once more with the same entity; ret keeps the database as
\* the first call left it
RetrySave ==
    /\ pc = "returned" /\ op \in {"save_market", "save_group", "save_hedge"}
    /\ db' = Saved(db)
    /\ ret' = Some(db)
    /\ pc' = "retried"
    /\ UNCHANGED <<service_vars, now, hash, feed, tag_index, all_markets, seen_ids, markets,
                   groups, valid_markets, opportunities, hedges, summary,
                   op, args>>

NextCalls ==
    \/ CallCalculateHedge
    \/ CallDetectArbitrage
    \/ CallGroupMarkets
    \/ CallValidateMarket
    \/ CallValidatePair
    \/ CallCalculateCoverage
    \/ CallClassifyTier
    \/ CallSave
    \/ RetrySave

SpecCalls == InitCalls /\ [][NextCalls]_vars

(***************************************************************************)
(* The services beside the scanner, each run on its own.                   *)
(***************************************************************************)

\* the scanner as it is when a service runs on its own
ScannerIdle ==
    /\ Constructed
    /\ pc = "idle"
    /\ now = 5
    /\ hash = <<>>
    /\ op = "none"
    /\ args = <<>>

InitQueue ==
    /\ ScannerIdle
    /\ RetryIdle
    /\ CacheIdle
    /\ RiskConstructed
    /\ MonitorsIdle
    /\ QueueConstructed
    /\ max_size \in 1..MaxQueue

NextQueue ==
    \/ CallEnqueue
    \/ Enqueue
    \/ \E w \in WorkerIds : WorkerDequeue(w)
    \/ \E w \in WorkerIds : WorkerExecute(w)
    \/ \E w \in WorkerIds : WorkerMarkCompleted(w)
    \/ \E w \in WorkerIds : WorkerMarkFailed(w)
    \/ \E w \in WorkerIds : WorkerPut(w)

SpecQueue == InitQueue /\ [][NextQueue]_vars

\* execute(func) on a RetryPolicy(max_retries, base_delay)
InitRetry ==
    /\ ScannerIdle
    /\ QueueIdle
    /\ CacheIdle
    /\ RiskConstructed
    /\ MonitorsIdle
    /\ RetryConstructed
    /\ policy \in [max_retries : -1..MaxRetries, base_delay : {1, RETRY_DELAY}]
    /\ retry_pc = IF policy.max_retries + 1 > 0 THEN "call" ELSE "exhausted"

NextRetry ==
    \/ Invoke
    \/ Backoff
    \/ ReturnFailure

SpecRetry == InitRetry /\ [][NextRetry]_vars

\* calls of a MemoryCache in any order, while time passes
InitCache ==
    /\ ScannerIdle
    /\ QueueIdle
    /\ RetryIdle
    /\ RiskConstructed
    /\ MonitorsIdle
    /\ CacheConstructed
    /\ clock = 0

NextCache ==
    \/ Tick
    \/ \E key \in CacheKeys : cache_get(key)
    \/ \E key \in CacheKeys, value \in CacheValues, ttl \in Ttls :
          cache_set(key, value, ttl)
    \/ \E key \in CacheKeys : cache_delete(key)
    \/ cache_clear
    \/ cache_cleanup

SpecCache == InitCache /\ [][NextCache]_vars

\* calls of a RiskControlEngine in any order
InitRisk ==
    /\ ScannerIdle
    /\ QueueIdle
    /\ RetryIdle
    /\ CacheIdle
    /\ RiskConstructed
    /\ MonitorsIdle

NextRisk ==
    \/ \E a \in OpenArgs : open_position(a[1], a[2], a[3], a[4])
    \/ \E market_id \in RiskMarkets, price \in ClosePrices :
          close_position(market_id, price)
    \/ \E prices \in PriceUpdates : update_prices(prices)

SpecRisk == InitRisk /\ [][NextRisk]_vars

\* the two monitors polling while the wallets trade
InitMonitor ==
    /\ ScannerIdle
    /\ QueueIdle
    /\ RetryIdle
    /\ CacheIdle
    /\ RiskConstructed
    /\ MonitorsConstructed
    /\ held = [w \in Wallets |-> {}]

NextMonitor ==
    \/ \E wallet \in Wallets : \E c \in Tradable[wallet] : Trade(wallet, c)
    \/ \E ok \in BOOLEAN : FastCheck(ok)
    \/ \E ok \in BOOLEAN : TradersCheck(ok)

SpecMonitor == InitMonitor /\ [][NextMonitor]_vars

(***************************************************************************)
(* Properties of _calculate_hedge, stated on the calls of SpecCalls.       *)
(***************************************************************************)
HedgeReturned == op = "calculate_hedge" /\ pc = "returned"

\* the i-th of the four directional scenarios of the call, its two leg
\* prices and its total cost
ScenarioOfCall(i) == HedgeScenarios(args[1], args[2])[i]

TargetPriceOfCall(i) == PositionPrice(ScenarioOfCall(i)[1], ScenarioOfCall(i)[2])

CoverPriceOfCall(i) == PositionPrice(ScenarioOfCall(i)[3], ScenarioOfCall(i)[4])

TotalCostOfCall(i) == FAdd(TargetPriceOfCall(i), CoverPriceOfCall(i))

\* total_cost lies in [0.98, 1.02], with or without the lower boundary
InBand(total_cost, closed) ==
    /\ FCmp(total_cost, FDec(98, 100)) >= (IF closed THEN 0 ELSE 1)
    /\ FCmp(total_cost, FDec(102, 100)) <= 0

PassesOfCall(i) ==
    /\ FCmp(TargetPriceOfCall(i), FLit[0]) > 0
    /\ FCmp(CoverPriceOfCall(i), FLit[0]) > 0
    /\ FCmp(TotalCostOfCall(i), FLit[200]) <= 0
    /\ ~(FCmp(FAbs(FSub(TotalCostOfCall(i), FLit[100])), FLit[2]) < 0)

CoverageOfCall(i) ==
    calculate_coverage(TargetPriceOfCall(i), CoverPriceOfCall(i),
                       NECESSARY_PROBABILITY)

\* score = coverage x max(expected_profit, 0)
ScoreOfCall(i) ==
    IF FCmp(CoverageOfCall(i).expected_profit, FLit[0]) > 0
    THEN FMul(CoverageOfCall(i).coverage, CoverageOfCall(i).expected_profit)
    ELSE FMul(CoverageOfCall(i).coverage, FLit[0])

QualifiesOfCall(i) ==
    PassesOfCall(i) /\ FCmp(CoverageOfCall(i).coverage, FLit[85]) >= 0

\* the returned opportunity is the i-th scenario
ReturnedIs(i) ==
    /\ ret # None
    /\ ret[1].target_market = ScenarioOfCall(i)[1]
    /\ ret[1].target_position = ScenarioOfCall(i)[2]
    /\ ret[1].cover_market = ScenarioOfCall(i)[3]
    /\ ret[1].cover_position = ScenarioOfCall(i)[4]

\* C2 as stated: if a scenario passes the skip checks with coverage >= 0.85,
\* _calculate_hedge returns an opportunity, and it is a scenario of the
\* highest score; if no scenario qualifies it returns nothing.
C2_QualifyingScenarioReturned ==
    HedgeReturned =>
        IF \E i \in 1..4 : QualifiesOfCall(i)
        THEN \E j \in 1..4 :
                /\ ReturnedIs(j) /\ QualifiesOfCall(j)
                /\ \A i \in 1..4 :
                      QualifiesOfCall(i) =>
                          FCmp(ScoreOfCall(j), ScoreOfCall(i)) >= 0
        ELSE ret = None

\* C2 as amended: _calculate_hedge returns an opportunity exactly when a
\* scenario passes the skip checks with coverage >= 0.85 and a score above
\* zero; the returned scenario then has the highest score of the four, and
\* is the first of them in the order of the scenarios to have it.
C2_BestPositiveScenarioReturned ==
    HedgeReturned =>
        IF \E i \in 1..4 : QualifiesOfCall(i) /\ FCmp(ScoreOfCall(i), FLit[0]) > 0
        THEN \E j \in 1..4 :
                /\ ReturnedIs(j) /\ QualifiesOfCall(j)
                /\ \A i \in 1..4 :
                      QualifiesOfCall(i) =>
                          /\ FCmp(ScoreOfCall(j), ScoreOfCall(i)) >= 0
                          /\ i < j => FCmp(ScoreOfCall(j), ScoreOfCall(i)) > 0
        ELSE ret = None

\* a call where a later scenario beats an earlier one that qualifies with a
\* score above zero, and is returned
C2_Witness ==
    /\ HedgeReturned
    /\ \E i, j \in 1..4 :
          /\ i < j /\ ReturnedIs(j)
          /\ QualifiesOfCall(i) /\ FCmp(ScoreOfCall(i), FLit[0]) > 0

(***************************************************************************)
(* Properties of FullScanner.scan, stated on the cycles of Spec.           *)
(***************************************************************************)
\* the hedges of the cycle are known
HedgesDetected == op = "scan" /\ pc \in {"log", "done"}

\* the hedges between the markets with ids a and b, in either direction
HedgesOfPair(a, b) ==
    SelectSeq(hedges,
              LAMBDA h : {h.target_market.id, h.cover_market.id} = {a, b})

\* market A (yes = 0.90, no = 0.09) and market B (yes = 0.08, no = 0.91)
\* were fetched and stand in two different groups
ScenarioAB ==
    /\ {"1", "2"} \subseteq DOMAIN markets
    /\ markets["1"].yes_price = 900 /\ markets["1"].no_price = 90
    /\ markets["2"].yes_price = 80 /\ markets["2"].no_price = 910
    /\ \E i, j \in 1..Len(groups) :
          /\ i # j
          /\ \E k \in 1..Len(groups[i].markets) : groups[i].markets[k] = "1"
          /\ \E k \in 1..Len(groups[j].markets) : groups[j].markets[k] = "2"

\* C3: for market A (yes = 0.90, no = 0.09) and market B (yes = 0.08,
\* no = 0.91) in two different groups, the hedge detector retains for the
\* pair the scenario target = A/NO, cover = B/YES with total cost 0.17,
\* coverage 0.9818, expected profit 0.8118 and tier 1/HIGH.  The total cost
\* is the float sum 0.09 + 0.08, which is 0.17 to four places.
C3_EndToEndHedge ==
    (HedgesDetected /\ ScenarioAB) =>
        /\ Len(HedgesOfPair("1", "2")) = 1
        /\ HedgesOfPair("1", "2")[1].target_market.id = "1"
        /\ HedgesOfPair("1", "2")[1].target_position = "NO"
        /\ HedgesOfPair("1", "2")[1].cover_market.id = "2"
        /\ HedgesOfPair("1", "2")[1].cover_position = "YES"
        /\ Round4(HedgesOfPair("1", "2")[1].total_cost) = FDec(17, 100)
        /\ HedgesOfPair("1", "2")[1].coverage = FDec(9818, 10000)
        /\ HedgesOfPair("1", "2")[1].expected_profit = FDec(8118, 10000)
        /\ HedgesOfPair("1", "2")[1].tier = 1
        /\ HedgesOfPair("1", "2")[1].tier_label = "HIGH"

\* a finished cycle that fetched A and B into two different groups and
\* found a hedge for the pair
C3_Witness ==
    /\ op = "scan" /\ pc = "done" /\ ScenarioAB
    /\ Len(HedgesOfPair("1", "2")) > 0

\* the tag partitions whose fetch raised, and the records of the others
RaisedPartitions ==
    {k \in 1..Len(feed) : feed[k].status \in {"tag_raised", "markets_raised"}}

\* the records the venue delivered in this cycle, in the order of delivery
RECURSIVE Delivered(_)
Delivered(k) ==
    IF k > Len(feed) THEN <<>>
    ELSE (IF feed[k].status = "ok" THEN feed[k].data ELSE <<>>)
             \o Delivered(k + 1)

\* the distinct markets among the delivered records: a record that cannot be
\* parsed is no market, and a repeated id stands for its first record
DeliveredMarkets ==
    {Delivered(1)[i].id : i \in
        {j \in 1..Len(Delivered(1)) :
            /\ ~ParseFails(Delivered(1)[j])
            /\ \A h \in 1..(j - 1) : Delivered(1)[h].id # Delivered(1)[j].id}}

\* C4: if fetching one tag partition raises inside scan(), no exception
\* escapes scan(): the cycle goes on with the next tag or the next stage,
\* and when it is done it has returned a summary whose total_markets counts
\* exactly the distinct markets delivered by the partitions that were
\* fetched successfully.
C4_FetchFailureContained ==
    (op = "scan" /\ RaisedPartitions # {}) =>
        /\ pc # "raised"
        /\ Len(feed) < Len(crypto_tags) => pc = "fetch"
        /\ pc = "done" =>
              /\ summary # None
              /\ summary[1].total_markets = Cardinality(DeliveredMarkets)

\* C5: in every scan cycle, the target market and the cover market of every
\* HedgeOpportunity produced by scan() both passed validate_market in that
\* cycle.
C5_HedgesOnlyOfValidated ==
    HedgesDetected =>
        \A i \in 1..Len(hedges) :
            /\ \E k \in 1..Len(valid_markets) :
                  valid_markets[k] = hedges[i].target_market.id
            /\ \E k \in 1..Len(valid_markets) :
                  valid_markets[k] = hedges[i].cover_market.id

(***************************************************************************)
(* Properties of _detect_arbitrage, group_markets and the validator,       *)
(* stated on the calls of SpecCalls.                                       *)
(***************************************************************************)
\* the opportunities the returned list holds for market m
OpportunitiesOf(m) ==
    {j \in 1..Len(ret) : ret[j].market_id = m.id}

\* |yes_price + no_price - 1.0| > 0.01 in decimal arithmetic, on prices in
\* thousandths
DeviatesAboveOnePercent(m) ==
    \/ m.yes_price + m.no_price - 1000 > 10
    \/ 1000 - (m.yes_price + m.no_price) > 10

\* C6: for every market that _detect_arbitrage examines, an
\* ArbitrageOpportunity is emitted exactly when |yes_price + no_price - 1.0|
\* is strictly greater than 0.01 (0.60/0.41 is not flagged, 0.60/0.43 is),
\* and the emitted potential_profit equals deviation x 100.
C6_FlaggedAboveOnePercent ==
    (op = "detect_arbitrage" /\ pc = "returned") =>
        /\ \A k \in 1..Len(args[1]) :
              Len(args[1][k].yes_token_id) >= 2 =>
                  (OpportunitiesOf(args[1][k]) # {}
                      <=> DeviatesAboveOnePercent(args[1][k]))
        /\ \A j \in 1..Len(ret) :
              ret[j].potential_profit = FMul(ret[j].deviation, FLit[10000])

\* C7: every MarketGroup returned by group_markets has at least 2 member
\* markets, for any input list of markets.
C7_GroupsHaveTwoMembers ==
    (op = "group_markets" /\ pc = "returned") =>
        \A k \in 1..Len(ret.groups) : Len(ret.groups[k].markets) >= 2

\* a call that returns a group although one of the markets it was given
\* stands alone with its base question
C7_Witness ==
    /\ op = "group_markets" /\ pc = "returned"
    /\ Len(ret.groups) > 0
    /\ \E i \in 1..Len(args[1]) :
          \A k \in 1..Len(ret.groups) :
              \A h \in 1..Len(ret.groups[k].markets) :
                  ret.groups[k].markets[h].id # args[1][i].id

\* C8: two markets of the input are assigned the same group identifier if
\* and only if their derived base questions are equal.
C8_GroupedByBaseQuestion ==
    (op = "group_markets" /\ pc = "returned") =>
        \A i, j \in 1..Len(ret.markets) :
            (ret.markets[i].group_id = ret.markets[j].group_id)
                <=> (get_base_question(ret.markets[i].question)
                         = get_base_question(ret.markets[j].question))

\* the end date of m is present, is a date, and has elapsed
Elapsed(m) ==
    m.end_date # <<>> /\ m.end_date[1] = "iso" /\ now > m.end_date[2]

\* the checks that fail for a market
FailingChecks(m) ==
    {c \in {"liquidity", "volume", "yes_price", "no_price", "expired"} :
        \/ c = "liquidity" /\ m.liquidity < MIN_LIQUIDITY
        \/ c = "volume" /\ m.volume < MIN_VOLUME
        \/ c = "yes_price" /\ (m.yes_price < 1 \/ m.yes_price > 999)
        \/ c = "no_price" /\ (m.no_price < 1 \/ m.no_price > 999)
        \/ c = "expired" /\ Elapsed(m)}

\* C9: validate_market does not short-circuit: the returned reasons list
\* contains one reason for each failing check (liquidity, volume, yes_price,
\* no_price, expired) and no other, and the returned boolean is true
\* exactly when that list is empty.
C9_OneReasonPerFailingCheck ==
    (op = "validate_market" /\ pc = "returned") =>
        /\ {ret[2][i][1] : i \in 1..Len(ret[2])} = FailingChecks(args[1])
        /\ Len(ret[2]) = Cardinality(FailingChecks(args[1]))
        /\ ret[1] <=> ret[2] = <<>>

\* every reason validate_market gives for m is in the returned list
ReasonsIncluded(m) ==
    \A i \in 1..Len(validate_market(m)[2]) :
        \E k \in 1..Len(ret[2]) : ret[2][k] = validate_market(m)[2][i]

\* validate_pair reports a pair valid only if validate_market succeeds for
\* both markets, and includes all reasons of both
PairReportsBoth ==
    /\ ret[1] => validate_market(args[1])[1] /\ validate_market(args[2])[1]
    /\ ReasonsIncluded(args[1]) /\ ReasonsIncluded(args[2])

\* C10 as stated: validate_pair(a, b) reports the pair invalid whenever a
\* and b carry the same group identifier, reports it valid only if
\* validate_market succeeds for both, and includes all reasons of both.
C10_SameGroupIdentifierInvalid ==
    (op = "validate_pair" /\ pc = "returned") =>
        /\ args[1].group_id = args[2].group_id => ~ret[1]
        /\ PairReportsBoth

\* C10 as amended: validate_pair(a, b) reports the pair invalid whenever a
\* and b carry the same non-empty group identifier, reports it valid only
\* if validate_market succeeds for both, and includes all reasons of both.
C10_SameAssignedGroupInvalid ==
    (op = "validate_pair" /\ pc = "returned") =>
        /\ (args[1].group_id # <<>> /\ args[1].group_id = args[2].group_id)
              => ~ret[1]
        /\ PairReportsBoth

\* two markets of one group, each valid on its own, reported invalid with
\* the pair's own reason only
C10_Witness ==
    /\ op = "validate_pair" /\ pc = "returned"
    /\ args[1].group_id # <<>> /\ args[1].group_id = args[2].group_id
    /\ validate_market(args[1])[1] /\ validate_market(args[2])[1]
    /\ ~ret[1] /\ Len(ret[2]) = 1

\* C11: validate_market flags a market as expired (returns invalid with an
\* expiry reason) whenever its end date is present and has already elapsed
\* at validation time, however short the time since the end date.
C11_ElapsedEndDateFlagged ==
    (op = "validate_market" /\ pc = "returned" /\ Elapsed(args[1])) =>
        /\ ~ret[1]
        /\ \E i \in 1..Len(ret[2]) : ret[2][i][1] = "expired"

(***************************************************************************)
(* Properties of calculate_coverage and classify_tier, on decimal          *)
(* arguments.                                                              *)
(***************************************************************************)
CoverageReturned == op = "calculate_coverage" /\ pc = "returned"

\* 1 - x for a decimal x of [0, 1]
OneMinus(x) == Dec(FALSE, 10 ^ x.e - x.n, x.e)

\* a decimal rounded to four places; no sample lies half way
Nearest4(x) ==
    IF x.e <= 4 THEN x
    ELSE Dec(x.neg, (x.n + 5 * 10 ^ (x.e - 5)) \div 10 ^ (x.e - 4), 4)

\* coverage(1.0, cover_price, p) = 1.0, with loss_probability 0
CertainTarget ==
    args[1] = Dec(FALSE, 1, 0) =>
        /\ FCmp(ret.coverage, FLit[100]) = 0
        /\ FCmp(ret.loss_probability, FLit[0]) = 0

\* C12 as stated: for every cover_price and every cover probability p,
\* coverage(1.0, cover_price, p) = 1.0 with loss_probability 0, and
\* coverage(0, cover_price, p) = p with loss_probability 1 - p.
C12_BoundaryIdentities ==
    CoverageReturned =>
        /\ CertainTarget
        /\ args[1] = Dec(FALSE, 0, 0) =>
              /\ FCmp(ret.coverage, FOfDec(args[3])) = 0
              /\ FCmp(ret.loss_probability, FOfDec(OneMinus(args[3]))) = 0

\* C12 as amended: for every cover_price and every cover probability p,
\* coverage(1.0, cover_price, p) = 1.0 with loss_probability 0, and
\* coverage(0, cover_price, p) is p rounded to four decimal places, with
\* loss_probability 1 - p rounded to four decimal places.
C12_BoundaryIdentitiesRounded ==
    CoverageReturned =>
        /\ CertainTarget
        /\ args[1] = Dec(FALSE, 0, 0) =>
              /\ FCmp(ret.coverage, FOfDec(Nearest4(args[3]))) = 0
              /\ FCmp(ret.loss_probability,
                      FOfDec(Nearest4(OneMinus(args[3])))) = 0

\* a call with target price 0 and a cover probability of five places
C12_Witness ==
    /\ CoverageReturned
    /\ args[1] = Dec(FALSE, 0, 0) /\ args[3].e = 5
    /\ FCmp(ret.coverage, FOfDec(Nearest4(args[3]))) = 0
    /\ FCmp(ret.coverage, FOfDec(args[3])) # 0

\* the decimal x is at least h hundredths
AtLeast(x, h) == ~x.neg /\ x.n * 10 ^ (6 - x.e) >= h * 10 ^ 4

\* C13: classify_tier is a total function of coverage with first-match
\* thresholds: coverage >= 0.95 gives (1, HIGH), else >= 0.90 gives
\* (2, GOOD), else >= 0.85 gives (3, MODERATE), else (4, LOW) for every
\* other value including negatives.
C13_TierByFirstMatch ==
    (op = "classify_tier" /\ pc = "returned") =>
        ret = IF AtLeast(args[1], 95) THEN <<1, "HIGH">>
              ELSE IF AtLeast(args[1], 90) THEN <<2, "GOOD">>
              ELSE IF AtLeast(args[1], 85) THEN <<3, "MODERATE">>
              ELSE <<4, "LOW">>

\* classify(0.949999) has returned (2, GOOD)
C13_Witness ==
    /\ op = "classify_tier" /\ pc = "returned"
    /\ args[1] = Dec(FALSE, 949999, 6)
    /\ ret = <<2, "GOOD">>

\* the place of a hedge in the order in which _detect_hedges generated the
\* pairs: the pairs across groups first, then the pairs across labels
PairRank(h) ==
    CHOOSE k \in 1..Len(HedgePairs(GroupsOf(groups, TRUE))) :
        {HedgePairs(GroupsOf(groups, TRUE))[k][1].id,
         HedgePairs(GroupsOf(groups, TRUE))[k][2].id}
            = {h.target_market.id, h.cover_market.id}

\* C14: the list returned by _detect_hedges is ordered by non-increasing
\* coverage, and opportunities with equal coverage keep the relative order
\* in which their pairs were generated.
C14_SortedStably ==
    HedgesDetected =>
        \A i, j \in 1..Len(hedges) :
            i < j =>
                /\ FCmp(hedges[i].coverage, hedges[j].coverage) >= 0
                /\ FCmp(hedges[i].coverage, hedges[j].coverage) = 0
                       => PairRank(hedges[i]) < PairRank(hedges[j])

\* a list in which a hedge of higher coverage was generated after the hedge
\* it precedes, and two hedges tie
C14_Witness ==
    /\ HedgesDetected
    /\ \E i, j \in 1..Len(hedges) :
          /\ i < j
          /\ FCmp(hedges[i].coverage, hedges[j].coverage) > 0
          /\ PairRank(hedges[i]) > PairRank(hedges[j])
    /\ \E i, j \in 1..Len(hedges) :
          i < j /\ FCmp(hedges[i].coverage, hedges[j].coverage) = 0

\* C15: a market missing either token id never produces an
\* ArbitrageOpportunity: _detect_arbitrage emits opportunities only for
\* markets that have both outcome token identifiers.
C15_OnlyWithBothTokens ==
    (op = "detect_arbitrage" /\ pc = "returned") =>
        \A k \in 1..Len(args[1]) :
            OpportunitiesOf(args[1][k]) # {} =>
                args[1][k].yes_token_id # "" /\ args[1][k].no_token_id # ""

\* C16: a failure of the persistence sink during a scan cycle (save_market,
\* save_group, save_hedge or log_scan raising) does not prevent scan() from
\* returning the in-memory summary: scan() never ends with the error of
\* one of these calls.
C16_SinkFailureContained ==
    op = "scan" =>
        ret \notin {Raising(call) :
                       call \in {"save_market", "save_group", "save_hedge",
                                 "log_scan"}}

\* C17: persistence writes are idempotent on retry: performing save_market,
\* save_group or save_hedge twice with the same entity leaves the stored
\* tables with the same rows as performing it once.
C17_RetriedWriteIdempotent ==
    pc = "retried" => db = ret[1]

\* the Market objects _fetch_markets has constructed
Constructions == {markets[id] : id \in DOMAIN markets}

FetchedIds == {all_markets[k] : k \in 1..Len(all_markets)}

\* C19: after every scan() on a FullScanner reused across cycles, the
\* scanner's market collection contains exactly the markets fetched in that
\* cycle, and groups contain only markets of that cycle.
C19_MarketsOfTheCycleOnly ==
    (op = "scan" /\ pc = "done") =>
        /\ DOMAIN markets = FetchedIds
        /\ \A g \in 1..Len(groups) :
              \A k \in 1..Len(groups[g].markets) :
                  groups[g].markets[k] \in FetchedIds

\* the delivered records that parse
WellFormed == {j \in 1..Len(Delivered(1)) : ~ParseFails(Delivered(1)[j])}

\* C20: a raw record with malformed price or token fields is dropped, and
\* scanning continues: every well-formed record of the same partition and
\* of later partitions still becomes a Market, and the cycle completes.
C20_MalformedRecordDropped ==
    (op = "scan" /\ pc \notin {"idle", "fetch"}
        /\ WellFormed # 1..Len(Delivered(1))) =>
        /\ pc # "raised"
        /\ FetchedIds = {Delivered(1)[j].id : j \in WellFormed}

\* C21: with the default cover probability 0.98 every HedgeOpportunity that
\* _calculate_hedge emits has tier 1/HIGH, a strictly positive
\* expected_profit and a total_cost below 1.0, and the coverage >= 0.85
\* filter rejects no scenario that passed the skip tests.
C21_EmittedHedgesAreTierOne ==
    HedgeReturned =>
        /\ ret # None =>
              /\ ret[1].tier = 1 /\ ret[1].tier_label = "HIGH"
              /\ FCmp(ret[1].expected_profit, FLit[0]) > 0
              /\ FCmp(ret[1].total_cost, FLit[100]) < 0
        /\ \A i \in 1..4 :
              ~ScenarioSkipped(TargetPriceOfCall(i), CoverPriceOfCall(i)) =>
                  FCmp(CoverageOfCall(i).coverage, FLit[85]) >= 0

\* a hedge is emitted, and a scenario of the call with a target price above
\* 1.0 reached the filter
C21_Witness ==
    /\ HedgeReturned /\ ret # None /\ ret[1].tier = 1
    /\ \E i \in 1..4 :
          /\ ~ScenarioSkipped(TargetPriceOfCall(i), CoverPriceOfCall(i))
          /\ FCmp(TargetPriceOfCall(i), FLit[100]) > 0

(***************************************************************************)
(* The trade queue.                                                        *)
(***************************************************************************)

\* the trades of TradeQueue._trades that wait in the heap list
Queued == {queue[i] : i \in 1..Len(queue)}

\* the trades that a worker holds between dequeue and the end of mark_*
Held == {workers[w].trade : w \in WorkerIds} \ {""}

Terminal(trade) == trade.status \in {"completed", "failed"}

\* C22: every enqueued trade is executed at most max_retries + 1 times, its
\* retries counter never exceeds max_retries, and it reaches a terminal
\* status as long as the workers keep running: a trade that is not yet
\* completed or failed waits in the queue or is held by a worker, for a
\* trade that is neither can never be executed again.
C22_BoundedRetryReachesTerminal ==
    \A t \in DOMAIN trades :
        /\ executed[t] <= trades[t].max_retries + 1
        /\ trades[t].retries <= trades[t].max_retries
        /\ ~Terminal(trades[t]) => t \in Queued \union Held

\* a worker waits inside put() on a full queue holding the lock, and every
\* other worker and the producer wait for the lock
Deadlocked ==
    \E w \in WorkerIds :
        /\ workers[w].pc = "put"
        /\ lock = w
        /\ full(queue)
        /\ \A v \in WorkerIds \ {w} :
              workers[v].pc \in {"mark_completed", "mark_failed"}
        /\ producer.pc = "acquire"

\* C23: the trade queue never deadlocks: no reachable state has a worker
\* blocked re-enqueueing into a full queue while it holds the lock and every
\* other worker and producer blocked waiting for that lock.
C23_NoDeadlock == ~Deadlocked

\* C24: dequeue returns a trade whose priority is the highest among the
\* trades queued at that moment, and enqueueing a trade with a new id into a
\* queue that is not full succeeds, whatever the priorities.
C24_ServedByPriority ==
    [][/\ \A w \in WorkerIds :
             (workers[w].pc = "dequeue" /\ workers'[w].pc = "execute") =>
                 \A t \in Queued :
                     SubmittedTrades[workers'[w].trade].priority
                         <= SubmittedTrades[t].priority
       /\ (/\ producer.pc = "acquire" /\ producer'.pc = "idle"
           /\ producer.trade \notin DOMAIN trades
           /\ ~full(queue)) => enqueued'.outcome = "True"]_vars

(***************************************************************************)
(* RetryPolicy.                                                            *)
(***************************************************************************)

\* an attempt failed: the operation raised, or returned a dict whose
\* success is false
AttemptFailed(r) ==
    \/ r.type = "raise"
    \/ r.type = "dict" /\ "success" \in DOMAIN r.items /\ ~r.items.success

\* the number of attempts that max_retries allows
AttemptsAllowed == IF policy.max_retries + 1 > 0 THEN policy.max_retries + 1 ELSE 0

\* C25: RetryPolicy.execute invokes the operation at most max_retries + 1
\* times, returns the result of the first attempt that does not report
\* failure without further attempts, waits base_delay x 2^k after failed
\* attempt k and not after the last attempt, and returns a result with
\* success = False when every attempt failed or raised.
C25_RetryPolicyBounded ==
    /\ Len(invocations) <= AttemptsAllowed
    /\ \A k \in 1..Len(delays) :
          /\ delays[k] = policy.base_delay * (2 ^ (k - 1))
          /\ k <= Len(invocations) /\ AttemptFailed(invocations[k])
          /\ k < AttemptsAllowed
    /\ \A k \in 1..(Len(invocations) - 1) :
          AttemptFailed(invocations[k]) /\ k <= Len(delays)
    /\ retry_pc = "returned" =>
          IF \E k \in 1..Len(invocations) : ~AttemptFailed(invocations[k])
          THEN /\ result = Some(invocations[Len(invocations)])
               /\ ~AttemptFailed(invocations[Len(invocations)])
               /\ Len(delays) = Len(invocations) - 1
          ELSE /\ Len(invocations) = AttemptsAllowed
               /\ result # None
               /\ result[1].type = "dict"
               /\ result[1].items.success = FALSE
               /\ Len(delays) = IF AttemptsAllowed > 0
                                THEN AttemptsAllowed - 1 ELSE 0

C25_Witness ==
    /\ retry_pc = "returned"
    /\ policy = [max_retries |-> MaxRetries, base_delay |-> RETRY_DELAY]
    /\ Len(invocations) = MaxRetries + 1
    /\ delays = [k \in 1..MaxRetries |-> RETRY_DELAY * (2 ^ (k - 1))]
    /\ \A k \in 1..Len(invocations) : AttemptFailed(invocations[k])
    /\ result[1].items.success = FALSE

(***************************************************************************)
(* MemoryCache.                                                            *)
(***************************************************************************)

\* the entry of a key is live: it was set, not deleted or cleared since,
\* and its age is at most its ttl
LiveEntry(key) ==
    /\ latest[key] # None
    /\ clock - latest[key][1].created_at <= latest[key][1].ttl

\* C26: under any interleaving of get, set, delete, clear and cleanup,
\* get(key) returns the most recently set value while the age of the entry
\* is at most its ttl, never a value older than its ttl, and returns None
\* and removes the entry once the age exceeds the ttl.
C26_GetHonoursTtl ==
    [][\A key \in CacheKeys :
          cache_get(key) =>
              IF LiveEntry(key)
              THEN got'.value = Some(latest[key][1].value)
              ELSE got'.value = None /\ key \notin DOMAIN cache']_vars

\* get has returned a value whose age is exactly its ttl, at the end of the
\* clock, while another key has no entry
C26_Witness ==
    /\ got # <<>>
    /\ got.value # None
    /\ got.key \in DOMAIN cache
    /\ got.value = Some(cache[got.key].value)
    /\ clock - cache[got.key].created_at = cache[got.key].ttl
    /\ clock = MaxClock
    /\ DOMAIN cache # CacheKeys

(***************************************************************************)
(* RiskControlEngine.                                                      *)
(***************************************************************************)

\* a step is a call of open_position: no other call leaves its name in
\* risk_ret
OpenCalled == risk_ret'.op = "open_position"

\* a step is a call of open_position whose size would take the exposure of
\* its market above Account.max_exposure
OpenAboveLimit ==
    \E a \in OpenArgs :
        /\ open_position(a[1], a[2], a[3], a[4])
        /\ FCmp(FAdd(market_exposure(account, a[1]), a[3]),
                max_exposure(account)) > 0

Rejected ==
    /\ risk_ret' = [op |-> "open_position", value |-> FALSE]
    /\ account'.positions = account.positions
    /\ account'.balance = account.balance

\* C27: in every state reachable by open_position (positive sizes),
\* close_position and update_prices the summed exposure of the open
\* positions of any single market is at most Account.max_exposure, and an
\* open_position call that would exceed the limit returns False and leaves
\* positions and balance unchanged.
C27_MarketExposureWithinLimit ==
    /\ [](\A market_id \in RiskMarkets :
             FCmp(market_exposure(account, market_id),
                  max_exposure(account)) <= 0)
    /\ [][OpenAboveLimit => Rejected]_vars

\* C28: after MAX_CONSECUTIVE_LOSSES losing close_position calls in a row
\* Account.is_stopped is true and every open_position call returns False
\* without changing positions or balance, until a close with non-negative
\* PnL resets consecutive_losses to 0.
C28_StopsAfterConsecutiveLosses ==
    /\ [](streak >= MAX_CONSECUTIVE_LOSSES =>
             /\ is_stopped(account)
             /\ account.consecutive_losses >= MAX_CONSECUTIVE_LOSSES)
    /\ [][(streak >= MAX_CONSECUTIVE_LOSSES /\ OpenCalled) => Rejected]_vars
    /\ [][(streak' = 0 /\ streak > 0) =>
             account'.consecutive_losses = 0]_vars

\* the account stopped after five losing closes and an open_position call
\* was rejected; one position is still open
C28_Witness ==
    /\ streak >= MAX_CONSECUTIVE_LOSSES
    /\ risk_ret = [op |-> "open_position", value |-> FALSE]
    /\ account.positions # <<>>
    /\ FCmp(total_exposure(account), max_exposure(account)) < 0


(***************************************************************************)
(* C29: across the rounds of FastMonitor.check_all and of                  *)
(* TradersMonitor.check_traders, a position that a wallet holds without a  *)
(* break is reported as new in at most one round, also when a fetch for    *)
(* the wallet fails in between.  reported_fast and reported_traders count  *)
(* the rounds that reported a position since the wallet opened it.         *)
(***************************************************************************)
C29_HeldPositionReportedOnce ==
    \A wallet \in Wallets : \A c \in held[wallet] :
        /\ reported_fast[wallet][c] <= 1
        /\ reported_traders[wallet][c] <= 1

=============================================================================
